---- MODULE Spec2Model ----
(***************************************************************************)
(* publsp as state machines over one set of variables:                     *)
(*   Spec          the LSP order orchestrator (publsp/marketplace/lsp.py)  *)
(*                 and the node backend calls it makes (publsp/ln/lnd.py); *)
(*   SpecValidate  the order validator (publsp/blip51/order.py);           *)
(*   SpecCustomer  LSP pricing and the customer's check of an order        *)
(*                 response (blip51/utils.py, marketplace/customer.py);    *)
(*   SpecDiscovery ad discovery (publsp/marketplace/base.py);              *)
(*   SpecCodec     the tag codec (publsp/blip51/mixins.py);                *)
(*   SpecRouter    the DM rumor queue and its consumers                    *)
(*                 (publsp/nostr/nip17.py);                                *)
(*   SpecWatcher   the health watcher (publsp/cli/lsputils.py).            *)
(*                                                                         *)
(* The validator is checked over every order and offer with fields in      *)
(* small ranges; the orchestrator and the pricing run on sat amounts of    *)
(* the size the program's defaults have.                                   *)
(***************************************************************************)
EXTENDS Integers, Sequences, FiniteSets, TLC

VARIABLES
    fn_in,        \* input of the function a specification applies, else "none"
    fn_out,       \* whether it was called, and its result
    active_ads,   \* AdHandler.active_ads: "None" or the retained ad
    pc,           \* per order task: the await it is suspended at
    order_of,     \* per order task: the Order taken from order_requests
    check,        \* per order task: what verify_order_and_connection found
    inv_state,    \* per order task: last status the invoice subscription yielded
    update,       \* per order task: the channel update being handled
    npending,     \* per order task: PENDING updates yielded so far
    ended,        \* per order task: how the task ended
    events,       \* per order task: node RPCs and DMs issued, in order
    lease_log,    \* the lease history file: sequence of lease records
    router,       \* the rumor queue, its consumers and their streams, else "none"
    watcher,      \* the health watcher's loop, else "none"
    ad_events     \* AdEventData.ad_events: the retained event per offer id,
                  \* where a specification follows the events, else "none"

vars == <<fn_in, fn_out, active_ads, pc, order_of, check, inv_state, update,
          npending, ended, events, lease_log, router, watcher,
          ad_events>>

orch_vars == <<active_ads, pc, order_of, check, inv_state, update, npending,
               ended, events, lease_log>>

(***************************************************************************)
(* Bounds of the model.                                                    *)
(***************************************************************************)
MaxBalance == 3          \* per-side balances range over 0..MaxBalance
MaxConfs == 2            \* confirmation fields range over 0..MaxConfs
MaxExpiry == 2           \* channel_expiry_blocks ranges over 1..MaxExpiry
NumOrders == 2           \* order requests taken from the rumor queue
MaxPending == 1          \* PENDING updates one channel-open stream yields

(***************************************************************************)
(* OrderErrorCode (order.py:27-31): the numeric code of each member.       *)
(***************************************************************************)
OrderErrorCode ==
    [connection_error |-> 0, invalid_params |-> -32602,
     client_rejected |-> 1, option_mismatch |-> 100]

(***************************************************************************)
(* Order.validate_order (order.py:82-129): nine checks in sequence, the    *)
(* first one that fails is returned.                                       *)
(***************************************************************************)
Invalid(msg) ==
    [is_valid |-> FALSE, error_code |-> "option_mismatch", error_message |-> msg]

Valid == [is_valid |-> TRUE, error_code |-> "None", error_message |-> "None"]

total_capacity(order) == order.lsp_balance_sat + order.client_balance_sat

validate_order_swapped(order, ad) ==
    IF ~(order.client_balance_sat + order.lsp_balance_sat >= ad.min_channel_balance_sat)
    THEN Invalid("client_balance_sat + lsp_balance_sat < min_channel_balance_sat")
    ELSE IF ~(order.client_balance_sat + order.lsp_balance_sat <= ad.max_channel_balance_sat)
    THEN Invalid("client_balance_sat + lsp_balance_sat > max_channel_balance_sat")
    ELSE IF ~(order.lsp_balance_sat >= ad.min_initial_lsp_balance_sat)
    THEN Invalid("lsp_balance_sat < min_initial_lsp_balance_sat")
    ELSE IF ~(order.lsp_balance_sat <= ad.max_initial_lsp_balance_sat)
    THEN Invalid("lsp_balance_sat > max_initial_lsp_balance_sat")
    ELSE IF ~(order.client_balance_sat >= ad.min_initial_client_balance_sat)
    THEN Invalid("client_balance_sat < min_initial_client_balance_sat")
    ELSE IF ~(order.client_balance_sat <= ad.max_initial_client_balance_sat)
    THEN Invalid("client_balance_sat > max_initial_client_balance_sat")
    ELSE IF ~(order.required_channel_confirmations >= ad.min_required_channel_confirmations)
    THEN Invalid("required_channel_confirmations < min_required_channel_confirmations")
    ELSE IF ~(order.funding_confirms_within_blocks >= ad.min_funding_confirms_within_blocks)
    THEN Invalid("funding_confirms_within_blocks < min_funding_confirms_within_blocks")
    ELSE IF ~(order.channel_expiry_blocks <= ad.max_channel_expiry_blocks)
    THEN Invalid("channel_expiry_blocks > max_channel_expiry_blocks")
    ELSE Valid

validate_order_strict(order, ad) ==
    IF ~(order.lsp_balance_sat >= ad.min_initial_lsp_balance_sat)
    THEN Invalid("lsp_balance_sat < min_initial_lsp_balance_sat")
    ELSE IF ~(order.lsp_balance_sat <= ad.max_initial_lsp_balance_sat)
    THEN Invalid("lsp_balance_sat > max_initial_lsp_balance_sat")
    ELSE IF ~(order.client_balance_sat >= ad.min_initial_client_balance_sat)
    THEN Invalid("client_balance_sat < min_initial_client_balance_sat")
    ELSE IF ~(order.client_balance_sat <= ad.max_initial_client_balance_sat)
    THEN Invalid("client_balance_sat > max_initial_client_balance_sat")
    ELSE IF ~(order.client_balance_sat + order.lsp_balance_sat >= ad.min_channel_balance_sat)
    THEN Invalid("client_balance_sat + lsp_balance_sat < min_channel_balance_sat")
    ELSE IF ~(order.client_balance_sat + order.lsp_balance_sat < ad.max_channel_balance_sat)
    THEN Invalid("client_balance_sat + lsp_balance_sat > max_channel_balance_sat")
    ELSE IF ~(order.required_channel_confirmations >= ad.min_required_channel_confirmations)
    THEN Invalid("required_channel_confirmations < min_required_channel_confirmations")
    ELSE IF ~(order.funding_confirms_within_blocks >= ad.min_funding_confirms_within_blocks)
    THEN Invalid("funding_confirms_within_blocks < min_funding_confirms_within_blocks")
    ELSE IF ~(order.channel_expiry_blocks <= ad.max_channel_expiry_blocks)
    THEN Invalid("channel_expiry_blocks > max_channel_expiry_blocks")
    ELSE Valid

validate_order(order, ad) ==
    IF ~(order.lsp_balance_sat >= ad.min_initial_lsp_balance_sat)
    THEN Invalid("lsp_balance_sat < min_initial_lsp_balance_sat")
    ELSE IF ~(order.lsp_balance_sat <= ad.max_initial_lsp_balance_sat)
    THEN Invalid("lsp_balance_sat > max_initial_lsp_balance_sat")
    ELSE IF ~(order.client_balance_sat >= ad.min_initial_client_balance_sat)
    THEN Invalid("client_balance_sat < min_initial_client_balance_sat")
    ELSE IF ~(order.client_balance_sat <= ad.max_initial_client_balance_sat)
    THEN Invalid("client_balance_sat > max_initial_client_balance_sat")
    ELSE IF ~(order.client_balance_sat + order.lsp_balance_sat >= ad.min_channel_balance_sat)
    THEN Invalid("client_balance_sat + lsp_balance_sat < min_channel_balance_sat")
    ELSE IF ~(order.client_balance_sat + order.lsp_balance_sat <= ad.max_channel_balance_sat)
    THEN Invalid("client_balance_sat + lsp_balance_sat > max_channel_balance_sat")
    ELSE IF ~(order.required_channel_confirmations >= ad.min_required_channel_confirmations)
    THEN Invalid("required_channel_confirmations < min_required_channel_confirmations")
    ELSE IF ~(order.funding_confirms_within_blocks >= ad.min_funding_confirms_within_blocks)
    THEN Invalid("funding_confirms_within_blocks < min_funding_confirms_within_blocks")
    ELSE IF ~(order.channel_expiry_blocks <= ad.max_channel_expiry_blocks)
    THEN Invalid("channel_expiry_blocks > max_channel_expiry_blocks")
    ELSE Valid

(***************************************************************************)
(* Wallet arithmetic.  Python's round() is round-half-to-even; the fee     *)
(* rate is sat_per_kw / 1000 / 4 (requesthandlers.py:87-91), so amounts    *)
(* are kept as integer numerators over the denominator 8000 (vbytes are    *)
(* doubled to keep 10.5 and 57.5 integral).                                *)
(***************************************************************************)
\* round(a + p/q) for integers a, p and q > 0
RoundSum(a, p, q) ==
    LET f == a + (p \div q)
        r == p % q
    IN  IF 2 * r < q THEN f
        ELSE IF 2 * r > q THEN f + 1
        ELSE IF f % 2 = 0 THEN f ELSE f + 1

RoundHalfEven(p, q) == RoundSum(0, p, q)

RECURSIVE SumSeq(_, _)
SumSeq(f, n) == IF n = 0 THEN 0 ELSE f[n] + SumSeq(f, n - 1)

\* GetUtxosResponse.spendable_amount (requesthandlers.py:102-108)
spendable_amount(utxos) ==
    SumSeq([i \in 1..Len(utxos) |->
                IF utxos[i].confirmations >= 3 THEN utxos[i].amount_sat ELSE 0],
           Len(utxos))

\* GetUtxosResponse.num_utxos (requesthandlers.py:110-112)
num_utxos(utxos) == Len(utxos)

\* Utxo.spend_cost_vb (base.py:31-39), doubled
spend_cost_vb2(utxo) ==
    CASE utxo.address_type = "WITNESS_PUBKEY_HASH" -> 136
      [] utxo.address_type = "NESTED_PUBKEY_HASH" -> 136
      [] utxo.address_type = "TAPROOT_PUBKEY" -> 115
      [] OTHER -> 0

\* spend_all_cost (ln/utils.py:5-9) with num_outputs = 2
spend_all_cost(utxos, sat_per_kw) ==
    RoundHalfEven(
        (21 + 2 * 31 * 2
            + SumSeq([i \in 1..Len(utxos) |-> spend_cost_vb2(utxos[i])], Len(utxos)))
          * sat_per_kw,
        8000)

(***************************************************************************)
(* The offer the LSP is configured with (AdSettings / CustomAdSettings     *)
(* defaults, settings.py:246-326) and the one offer id it derives from its *)
(* node pubkey (lsp.py:64-73).                                             *)
(***************************************************************************)
AdId == "ad-of-lsp"

options ==
    [d |-> AdId,
     status |-> "active",
     min_required_channel_confirmations |-> 0,
     min_funding_confirms_within_blocks |-> 2,
     max_channel_expiry_blocks |-> 12960,
     min_initial_client_balance_sat |-> 0,
     max_initial_client_balance_sat |-> 0,
     min_initial_lsp_balance_sat |-> 0,
     max_initial_lsp_balance_sat |-> 10000000,
     min_channel_balance_sat |-> 1000000,
     max_channel_balance_sat |-> 10000000]

custom_options ==
    [sum_utxos_as_max_capacity |-> FALSE, channel_max_bucket |-> 5000000]

(***************************************************************************)
(* What the node's wallet may answer when asked (ListUnspent,              *)
(* RequiredReserve, EstimateFee): the environment's choice at each call.   *)
(***************************************************************************)
P2wpkh(amount, confs) ==
    [address_type |-> "WITNESS_PUBKEY_HASH", amount_sat |-> amount,
     confirmations |-> confs]

Wallets ==
    { \* the UTXO fetch fails or the set is empty (lnd.py:348-362)
      [error |-> TRUE, utxos |-> << >>, required_reserve |-> 0, sat_per_kw |-> 0],
      \* three confirmed 2,000,000-sat outputs, reserve 50,000, 5 sat/vB
      [error |-> FALSE,
       utxos |-> <<P2wpkh(2000000, 6), P2wpkh(2000000, 6), P2wpkh(2000000, 6)>>,
       required_reserve |-> 50000, sat_per_kw |-> 20000],
      \* too little to sell the smallest channel
      [error |-> FALSE, utxos |-> <<P2wpkh(500000, 6)>>,
       required_reserve |-> 50000, sat_per_kw |-> 20000] }

(***************************************************************************)
(* AdHandler.adjust_ad_max_capacity (lsp.py:228-272).  0 stands for the    *)
(* None it returns: publish_ad tests the result with "if not", which       *)
(* treats 0 and None alike.                                                *)
(***************************************************************************)
adjust_ad_max_capacity(ad, w) ==
    IF w.error THEN 0     \* utxos.utxos is None: the except branch
    ELSE LET available_funds ==
                 spendable_amount(w.utxos) - w.required_reserve
                     - spend_all_cost(w.utxos, w.sat_per_kw)
         IN  IF available_funds < ad.min_channel_balance_sat THEN 0
             ELSE IF custom_options.sum_utxos_as_max_capacity THEN available_funds
             ELSE IF available_funds < ad.max_channel_balance_sat
                  THEN available_funds
                         - (available_funds % custom_options.channel_max_bucket)
             ELSE ad.max_channel_balance_sat

\* adjust_ad_max_capacity of the configured offer, tabulated per wallet
adjusted_max_capacity_of ==
    [w \in Wallets |-> adjust_ad_max_capacity(options, w)]

(***************************************************************************)
(* AdHandler.inactivate_ads (lsp.py:169-214) with update_type inactivate:  *)
(* each retained event is re-sent with status inactive; an ad whose send   *)
(* reports no success is left as it was.  send is the relay's answer:      *)
(* "ok", "failed" (an output without success) or "raise".                  *)
(***************************************************************************)
inactivate_ads(ads, send) ==
    IF ads.is_none THEN ads
    ELSE [ads EXCEPT !.ads =
            [d \in DOMAIN ads.ads |->
                IF send = "ok" THEN [ads.ads[d] EXCEPT !.status = "inactive"]
                ELSE ads.ads[d]]]

(***************************************************************************)
(* AdHandler.publish_ad (lsp.py:109-167).  node_ok: get_lsp_data returned  *)
(* (get_node_id and get_node_properties raise on a transport error,        *)
(* lnd.py:177-180, 303-307).  The output of send_event is not looked at:   *)
(* the ad is retained unless the send raises.  The result is the retained  *)
(* ads afterwards and whether the call raised.                             *)
(***************************************************************************)
publish_ad(ads, w, node_ok, send) ==
    IF ~node_ok THEN [raised |-> TRUE, ads |-> ads]
    ELSE LET lsp_ad == options
             adjusted_max_capacity == adjusted_max_capacity_of[w]
         IN  IF adjusted_max_capacity = 0
             THEN IF ads.is_none THEN [raised |-> FALSE, ads |-> ads]
                  ELSE [raised |-> send = "raise",
                        ads |-> inactivate_ads(ads, send)]
             ELSE IF send = "raise" THEN [raised |-> TRUE, ads |-> ads]
             ELSE [raised |-> FALSE,
                   ads |-> [is_none |-> FALSE,
                            ads |-> (lsp_ad.d :>
                               [lsp_ad EXCEPT
                                  !.status = "active",
                                  !.max_channel_balance_sat = adjusted_max_capacity,
                                  !.max_initial_lsp_balance_sat = adjusted_max_capacity])]]

SendOutcomes == {"ok", "failed", "raise"}

\* what one call of publish_ad can do, over all the environment may answer
PublishOutcomes(ads) ==
    { publish_ad(ads, w, node_ok, send) :
        w \in Wallets, node_ok \in BOOLEAN, send \in SendOutcomes }

(***************************************************************************)
(* OrderHandler.verify_order_and_connection (lsp.py:332-385).              *)
(*   conn: what connect_peer answered, "connected" or "refused"            *)
(*   (ConnectPeerResponse.connected, lnd.py:550-602).                      *)
(* The result says whether the call raised, returned an OrderErrorResponse *)
(* or returned None, and, in found, which step decided it.                 *)
(***************************************************************************)
Raised(found) ==
    [kind |-> "raise", found |-> found, code |-> "None", error_message |-> "None"]

ErrorResponse(found, code, msg) ==
    [kind |-> "error", found |-> found, code |-> code, error_message |-> msg]

Verified == [kind |-> "ok", found |-> "ok", code |-> "None", error_message |-> "None"]

buyer_msg == "LSP could not successfully fill order at this moment, please try again later"

\* lsp.py:361-365: the 68 vB per input is multiplied out for every utxo
cannot_fill_order(order, w) ==
    RoundSum(
        spendable_amount(w.utxos) - w.required_reserve,
        0 - (21 + 2 * 31 * 2 + 2 * 68 * num_utxos(w.utxos)) * w.sat_per_kw,
        8000) < total_capacity(order)

verify_order_and_connection(ads, order, w, conn) ==
    \* lsp.py:335: active_ads is None (AttributeError) or has no such offer
    \* id (KeyError)
    IF ads.is_none THEN Raised("no_ads")
    ELSE IF order.d \notin DOMAIN ads.ads THEN Raised("unknown_offer")
    ELSE LET checked_order == validate_order(order, ads.ads[order.d])
         IN  IF ~checked_order.is_valid
             THEN ErrorResponse("invalid", checked_order.error_code,
                                checked_order.error_message)
             ELSE IF w.error
             THEN ErrorResponse("utxo_fetch", "invalid_params", buyer_msg)
             ELSE IF cannot_fill_order(order, w)
             THEN ErrorResponse("insolvent", "invalid_params", buyer_msg)
             \* lsp.py:378-385: the error message reads order.pubkey_uri, an
             \* attribute Order does not have (order.py:43-80): AttributeError
             ELSE IF conn # "connected" THEN Raised("connect")
             ELSE Verified

\* what one call can do, over all the wallet and the peer may answer
VerifyOutcomes(ads, order) ==
    { verify_order_and_connection(ads, order, w, conn) :
        w \in Wallets, conn \in {"connected", "refused"} }

(***************************************************************************)
(* The orders customers send (the environment's choice): the default       *)
(* order of OrderSettings (settings.py:346-353), one below the offer's     *)
(* minimum capacity, and one that names an offer id the LSP never          *)
(* published.                                                              *)
(***************************************************************************)
OrderOf(d, lsp_balance_sat) ==
    [d |-> d,
     lsp_balance_sat |-> lsp_balance_sat,
     client_balance_sat |-> 0,
     required_channel_confirmations |-> 0,
     funding_confirms_within_blocks |-> 6,
     channel_expiry_blocks |-> 4320]

OrderPool ==
    { OrderOf(AdId, 5000000), OrderOf(AdId, 500000),
      OrderOf("other-offer", 5000000) }

Tasks == 1..NumOrders

Ev(t, a) == [t |-> t, a |-> a]

Has(o, e) == \E i \in 1..Len(events[o]) : events[o][i] = e

Log(o, es) == events' = [events EXCEPT ![o] = @ \o es]

\* the task's coroutine finished: by return ("order_error", "no_hold",
\* "refund", "record_lease") or by an exception nobody catches
Finish(o, how) ==
    /\ pc' = [pc EXCEPT ![o] = "done"]
    /\ ended' = [ended EXCEPT ![o] = how]

(***************************************************************************)
(* cmd_publish_ad (lspcli.py:120-123): the operator, or the daemon at      *)
(* start, publishes the ad.  An exception ends the command, not the        *)
(* process.                                                                *)
(***************************************************************************)
cmd_publish_ad ==
    \E r \in PublishOutcomes(active_ads) :
        /\ active_ads' = r.ads
        /\ active_ads' # active_ads
        /\ UNCHANGED <<router, watcher, ad_events, fn_in, fn_out, pc, order_of, check, inv_state, update,
                       npending, ended, events, lease_log>>

\* a listener that awaits each order's handling before taking the next
_listen_awaiting_each(o) ==
    /\ pc[o] = "queued"
    /\ \A p \in Tasks : p < o => pc[p] = "done"
    /\ \E order \in OrderPool : order_of' = [order_of EXCEPT ![o] = order]
    /\ pc' = [pc EXCEPT ![o] = "verify"]
    /\ UNCHANGED <<router, watcher, ad_events, fn_in, fn_out, active_ads, check, inv_state, update,
                   npending, ended, events, lease_log>>

(***************************************************************************)
(* OrderHandler._listen (lsp.py:578-584): the next order request of the    *)
(* rumor queue spawns its own task.                                        *)
(***************************************************************************)
_listen(o) ==
    /\ pc[o] = "queued"
    /\ \A p \in Tasks : p < o => pc[p] # "queued"
    /\ \E order \in OrderPool : order_of' = [order_of EXCEPT ![o] = order]
    /\ pc' = [pc EXCEPT ![o] = "verify"]
    /\ UNCHANGED <<router, watcher, ad_events, fn_in, fn_out, active_ads, check, inv_state, update,
                   npending, ended, events, lease_log>>

(***************************************************************************)
(* _handle_channel_request, first part (lsp.py:552-563): verify, and on an *)
(* OrderErrorResponse send it as a DM and return.  dm_ok: the DM send      *)
(* returned rather than raised.                                            *)
(***************************************************************************)
VerifyOrder(o) ==
    /\ pc[o] = "verify"
    /\ \E err \in VerifyOutcomes(active_ads, order_of[o]) :
         /\ check' = [check EXCEPT ![o] = err.found]
         /\ CASE err.kind = "raise" ->
                   /\ Finish(o, "exception_verify")
                   /\ UNCHANGED events
              [] err.kind = "error" ->
                   \E dm_ok \in BOOLEAN :
                       IF dm_ok
                       THEN /\ Finish(o, "order_error")
                            /\ Log(o, <<Ev("dm_error", err.code)>>)
                       ELSE /\ Finish(o, "dm_raise")
                            /\ UNCHANGED events
              [] err.kind = "ok" ->
                   /\ pc' = [pc EXCEPT ![o] = "prepare"]
                   /\ UNCHANGED <<ended, events>>
    /\ UNCHANGED <<router, watcher, ad_events, fn_in, fn_out, active_ads, order_of, inv_state, update,
                   npending, lease_log>>

(***************************************************************************)
(* OrderHandler._prepare_order (lsp.py:399-415).                           *)
(*   costs_ok: get_order_costs returned.  It calls calculate_lease_cost    *)
(*     with the keyword max_channel_expiry_blocks (lsp.py:389-395); the    *)
(*     definition in blip51/utils.py:4-16 has no such parameter, so with   *)
(*     it the call raises TypeError; the definition the call is written    *)
(*     for is not in the tree, and both outcomes are kept.  A missing      *)
(*     offer id raises KeyError (lsp.py:388).                              *)
(*   created: create_hodl_invoice made the invoice.  When it did not,      *)
(*     inv.expiry is None (lnd.py:396-421) and timedelta(seconds=None)     *)
(*     raises TypeError (lsp.py:406).                                      *)
(***************************************************************************)
_prepare_order(o) ==
    /\ pc[o] = "prepare"
    /\ \E costs_ok \in BOOLEAN, created \in BOOLEAN :
         IF ~costs_ok \/ active_ads.is_none
               \/ order_of[o].d \notin DOMAIN active_ads.ads
         THEN /\ created
              /\ Finish(o, "exception_costs")
              /\ UNCHANGED events
         ELSE IF ~created
         THEN /\ Finish(o, "exception_invoice")
              /\ UNCHANGED events
         ELSE /\ pc' = [pc EXCEPT ![o] = "send_response"]
              /\ Log(o, <<Ev("rpc", "create_hodl_invoice")>>)
              /\ UNCHANGED ended
    /\ UNCHANGED <<router, watcher, ad_events, fn_in, fn_out, active_ads, order_of, check, inv_state,
                   update, npending, lease_log>>

\* a task that goes on to the invoice subscription without the OrderResponse DM
SendOrderResponse_unsent(o) ==
    /\ pc[o] = "send_response"
    /\ pc' = [pc EXCEPT ![o] = "wait_hold"]
    /\ UNCHANGED <<router, watcher, ad_events, fn_in, fn_out, active_ads, order_of, check, inv_state,
                   update, npending, ended, events, lease_log>>

(***************************************************************************)
(* _handle_channel_request, lsp.py:567-572: the OrderResponse DM; then the *)
(* task subscribes to the invoice (lsp.py:537, 425).                       *)
(***************************************************************************)
SendOrderResponse(o) ==
    /\ pc[o] = "send_response"
    /\ \E dm_ok \in BOOLEAN :
         IF dm_ok
         THEN /\ pc' = [pc EXCEPT ![o] = "wait_hold"]
              /\ Log(o, <<Ev("dm_response", "CREATED")>>)
              /\ UNCHANGED ended
         ELSE /\ Finish(o, "dm_raise")
              /\ UNCHANGED events
    /\ UNCHANGED <<router, watcher, ad_events, fn_in, fn_out, active_ads, order_of, check, inv_state,
                   update, npending, lease_log>>

(***************************************************************************)
(* OrderHandler._payment_listener (lsp.py:417-433): which invoice status   *)
(* makes it return True.                                                   *)
(***************************************************************************)
HodlInvoiceState == {"EXPECT_PAYMENT", "HOLD", "PAID", "REFUNDED", "UNKNOWN"}

payment_listener_returns_on_paid(status) == status \in {"HOLD", "PAID"}

payment_listener_returns(status) == status = "HOLD"

(***************************************************************************)
(* One resumption of the task while it iterates the invoice subscription   *)
(* (lsp.py:425-433, 537-543; lnd.py:434-480).                              *)
(*   next a status: the stream yields it; on HOLD the listener             *)
(*     returns True and the task starts iterating open_channel, which      *)
(*     posts the open request (lnd.py:625);                                *)
(*   next = "closed": the stream ended; the generator yields its last      *)
(*     UNKNOWN (lnd.py:477-480), the listener returns False and the task   *)
(*     returns (lsp.py:541-543);                                           *)
(*   next = "raise": the transport raised, nothing catches it.             *)
(***************************************************************************)
InvoiceUpdate(o) ==
    /\ pc[o] = "wait_hold"
    /\ \E next \in HodlInvoiceState \cup {"closed", "raise"} :
         CASE next \in HodlInvoiceState /\ payment_listener_returns(next) ->
                /\ inv_state' = [inv_state EXCEPT ![o] = next]
                /\ pc' = [pc EXCEPT ![o] = "stream"]
                /\ Log(o, <<Ev("paid", next), Ev("rpc", "open_channel")>>)
                /\ UNCHANGED ended
           [] next \in HodlInvoiceState /\ ~payment_listener_returns(next) ->
                /\ inv_state' = [inv_state EXCEPT ![o] = next]
                /\ inv_state' # inv_state
                /\ UNCHANGED <<pc, ended, events>>
           [] next = "closed" ->
                /\ inv_state' = [inv_state EXCEPT ![o] = "UNKNOWN"]
                /\ Finish(o, "no_hold")
                /\ UNCHANGED events
           [] next = "raise" ->
                /\ Finish(o, "stream_raise")
                /\ UNCHANGED <<inv_state, events>>
    /\ UNCHANGED <<router, watcher, ad_events, fn_in, fn_out, active_ads, order_of, check, update,
                   npending, lease_log>>

(***************************************************************************)
(* One resumption of the task at "async for update in open_channel"        *)
(* (lsp.py:445-451; lnd.py:604-679): the stream yields PENDING, OPEN or    *)
(* UNKNOWN (an error line, or the UNKNOWN that follows the end of the      *)
(* stream), or the transport raises.  The task then sends the update as a  *)
(* DM (lsp.py:447).                                                        *)
(***************************************************************************)
ChannelState == {"PENDING", "OPEN", "UNKNOWN"}

NextUpdate(o) ==
    /\ pc[o] = "stream"
    /\ \E state \in ChannelState \cup {"raise"} :
         IF state = "raise"
         THEN /\ Finish(o, "stream_raise")
              /\ UNCHANGED <<update, npending, events>>
         ELSE /\ state = "PENDING" => npending[o] < MaxPending
              /\ update' = [update EXCEPT ![o] = state]
              /\ npending' = [npending EXCEPT ![o] =
                                 IF state = "PENDING" THEN @ + 1 ELSE @]
              /\ pc' = [pc EXCEPT ![o] = "dm_update"]
              /\ Log(o, <<Ev("update", state)>>)
              /\ UNCHANGED ended
    /\ UNCHANGED <<router, watcher, ad_events, fn_in, fn_out, active_ads, order_of, check, inv_state,
                   lease_log>>

(***************************************************************************)
(* _channel_open_listener after the DM of an update returned               *)
(* (lsp.py:452-483): the call the task makes next.                         *)
(***************************************************************************)
after_update_dm_settles_early(state) ==
    CASE state = "PENDING" -> "settle"
      [] state = "OPEN" -> "settle"
      [] state = "UNKNOWN" -> "cancel"
      [] OTHER -> "stream"

after_update_dm(state) ==
    CASE state = "PENDING" -> "republish_pending"
      [] state = "OPEN" -> "settle"
      [] state = "UNKNOWN" -> "cancel"
      [] OTHER -> "stream"

RpcOf(next) ==
    CASE next = "settle" -> <<Ev("rpc", "settle_hodl_invoice")>>
      [] next = "cancel" -> <<Ev("rpc", "cancel_hodl_invoice")>>
      [] OTHER -> << >>

SendUpdateDM(o) ==
    /\ pc[o] = "dm_update"
    /\ \E dm_ok \in BOOLEAN :
         IF dm_ok
         THEN LET next == after_update_dm(update[o])
              IN  /\ pc' = [pc EXCEPT ![o] = next]
                  /\ Log(o, <<Ev("dm_update", update[o])>> \o RpcOf(next))
                  /\ UNCHANGED ended
         ELSE /\ Finish(o, "dm_raise")
              /\ UNCHANGED events
    /\ UNCHANGED <<router, watcher, ad_events, fn_in, fn_out, active_ads, order_of, check, inv_state,
                   update, npending, lease_log>>

(***************************************************************************)
(* lsp.py:453-456: on PENDING the ad is published again; then the loop     *)
(* waits for the next update.                                              *)
(***************************************************************************)
RepublishPending(o) ==
    /\ pc[o] = "republish_pending"
    /\ \E r \in PublishOutcomes(active_ads) :
             /\ active_ads' = r.ads
             /\ IF r.raised
                THEN Finish(o, "publish_raise")
                ELSE /\ pc' = [pc EXCEPT ![o] = "stream"]
                     /\ UNCHANGED ended
    /\ UNCHANGED <<router, watcher, ad_events, fn_in, fn_out, order_of, check, inv_state, update,
                   npending, events, lease_log>>

\* a listener that goes on iterating the stream after it settled
SettleDone_keeps_iterating(o) ==
    /\ pc[o] = "settle"
    /\ pc' = [pc EXCEPT ![o] = "stream"]
    /\ UNCHANGED <<router, watcher, ad_events, fn_in, fn_out, active_ads, order_of, check, inv_state,
                   update, npending, ended, events, lease_log>>

(***************************************************************************)
(* lsp.py:459-465: settle_hodl_invoice returned (its result is not looked  *)
(* at; it catches its transport errors, lnd.py:482-516); the task sends    *)
(* the final DM.                                                           *)
(***************************************************************************)
SettleDone(o) ==
    /\ pc[o] = "settle"
    /\ pc' = [pc EXCEPT ![o] = "dm_final"]
    /\ UNCHANGED <<router, watcher, ad_events, fn_in, fn_out, active_ads, order_of, check, inv_state,
                   update, npending, ended, events, lease_log>>

(***************************************************************************)
(* lsp.py:461-472, 503: the final DM returned or raised; after it the task *)
(* asks for the best block.                                                *)
(***************************************************************************)
FinalDM(o) ==
    /\ pc[o] = "dm_final"
    /\ \E dm_ok \in BOOLEAN :
         IF dm_ok
         THEN /\ pc' = [pc EXCEPT ![o] = "best_block"]
              /\ Log(o, <<Ev("dm_final", "OPEN")>>)
              /\ UNCHANGED ended
         ELSE /\ Finish(o, "dm_raise")
              /\ UNCHANGED events
    /\ UNCHANGED <<router, watcher, ad_events, fn_in, fn_out, active_ads, order_of, check, inv_state,
                   update, npending, lease_log>>

\* an append that writes back a file read before the other tasks wrote
_append_lease_sale_over_stale_read(o) ==
    /\ pc[o] = "best_block"
    /\ lease_log' = <<[task |-> o,
                       lsp_balance_sat |-> order_of[o].lsp_balance_sat,
                       client_balance_sat |-> order_of[o].client_balance_sat,
                       total_capacity |-> total_capacity(order_of[o]),
                       channel_expiry_blocks |-> order_of[o].channel_expiry_blocks]>>
    /\ pc' = [pc EXCEPT ![o] = "republish_open"]
    /\ UNCHANGED <<router, watcher, ad_events, fn_in, fn_out, active_ads, order_of, check, inv_state,
                   update, npending, ended, events>>

(***************************************************************************)
(* _append_lease_sale_to_output_file after get_best_block returned         *)
(* (lsp.py:504-528; get_best_block catches its errors, lnd.py:247-270):    *)
(* read, append and write the file in one go, then call publish_ad         *)
(* (lsp.py:474).                                                           *)
(***************************************************************************)
lease_sale_info(o) ==
    [task |-> o,
     lsp_balance_sat |-> order_of[o].lsp_balance_sat,
     client_balance_sat |-> order_of[o].client_balance_sat,
     total_capacity |-> total_capacity(order_of[o]),
     channel_expiry_blocks |-> order_of[o].channel_expiry_blocks]

_append_lease_sale_to_output_file(o) ==
    /\ pc[o] = "best_block"
    /\ lease_log' = Append(lease_log, lease_sale_info(o))
    /\ pc' = [pc EXCEPT ![o] = "republish_open"]
    /\ UNCHANGED <<router, watcher, ad_events, fn_in, fn_out, active_ads, order_of, check, inv_state,
                   update, npending, ended, events>>

(***************************************************************************)
(* lsp.py:474-475: the ad is published again and the listener returns.     *)
(***************************************************************************)
RepublishOpen(o) ==
    /\ pc[o] = "republish_open"
    /\ \E r \in PublishOutcomes(active_ads) :
             /\ active_ads' = r.ads
             /\ Finish(o, IF r.raised THEN "publish_raise" ELSE "record_lease")
    /\ UNCHANGED <<router, watcher, ad_events, fn_in, fn_out, order_of, check, inv_state, update,
                   npending, events, lease_log>>

(***************************************************************************)
(* lsp.py:480-483: cancel_hodl_invoice returned (it catches its transport  *)
(* errors, lnd.py:518-548); an error is logged and the listener returns.   *)
(***************************************************************************)
CancelDone(o) ==
    /\ pc[o] = "cancel"
    /\ Finish(o, "refund")
    /\ UNCHANGED <<router, watcher, ad_events, fn_in, fn_out, active_ads, order_of, check, inv_state,
                   update, npending, events, lease_log>>

(***************************************************************************)
(* Pricing on both sides.                                                  *)
(*   LSP: calculate_lease_cost (blip51/utils.py:4-16), called by           *)
(*   get_order_costs (lsp.py:387-397).                                     *)
(*   Customer: expected_fee_total in is_order_resp_valid                   *)
(*   (customer.py:166-172).                                                *)
(* The float product variable_cost_ppm * 1e-6 * capacity is kept exact as  *)
(* whole sats plus a numerator over 1000000; on the inputs of CostAds and  *)
(* CostOrders the float results coincide with the exact ones.              *)
(***************************************************************************)
YEARLY_MINED_BLOCKS == 52560

\* whole part of fixed_cost + variable_cost_ppm * 1e-6 * capacity
capacity_ppm_whole(fixed_cost, variable_cost_ppm, capacity) ==
    fixed_cost + variable_cost_ppm * (capacity \div 1000000)
        + (variable_cost_ppm * (capacity % 1000000)) \div 1000000

\* numerator over 1000000 of its fractional part
capacity_ppm_frac(variable_cost_ppm, capacity) ==
    (variable_cost_ppm * (capacity % 1000000)) % 1000000

calculate_lease_cost(fixed_cost, variable_cost_ppm, capacity, channel_expiry_blocks) ==
    LET k == capacity_ppm_whole(fixed_cost, variable_cost_ppm, capacity)
        r == capacity_ppm_frac(variable_cost_ppm, capacity)
    IN  IF r = 0
        THEN RoundSum((k \div YEARLY_MINED_BLOCKS) * channel_expiry_blocks,
                      (k % YEARLY_MINED_BLOCKS) * channel_expiry_blocks,
                      YEARLY_MINED_BLOCKS)
        ELSE RoundHalfEven((k * 1000000 + r) * channel_expiry_blocks,
                           1000000 * YEARLY_MINED_BLOCKS)

\* OrderHandler.get_order_costs (lsp.py:387-397), when the call returns
get_order_costs(ad, order) ==
    LET total_fee == calculate_lease_cost(
                         ad.fixed_cost_sats, ad.variable_cost_ppm,
                         total_capacity(order), order.channel_expiry_blocks)
    IN  [total_fee |-> total_fee,
         total_cost |-> total_fee + order.client_balance_sat]

(***************************************************************************)
(* The part of an OrderResponse the customer looks at: the BOLT-11         *)
(* invoice's payee and amount, and the Bolt11 fields fee_total_sat and     *)
(* order_total_sat.  OrderResponseOf is what _prepare_order builds         *)
(* (lsp.py:399-415): the node signs the invoice, for costs.total_cost.     *)
(***************************************************************************)
OrderResponseOf(ad, order) ==
    LET costs == get_order_costs(ad, order)
    IN  [invoice_pubkey |-> ad.lsp_pubkey,
         invoice_amount_sat |-> costs.total_cost,
         fee_total_sat |-> costs.total_fee,
         order_total_sat |-> costs.total_cost]

(***************************************************************************)
(* invoice_order_total_sat = int(float(decoded_payreq.amount) * 1e8)       *)
(* (customer.py:165).  The amount is a Decimal of BTC; the float product   *)
(* falls just below the integer for some amounts and int() then drops a    *)
(* sat.  TruncatedAmounts are the invoice amounts of this model for which  *)
(* it does (822 -> 821, 50001 -> 50000, ...).                              *)
(***************************************************************************)
TruncatedAmounts == {822, 50001, 1014795, 1033288}

invoice_order_total_sat(invoice_amount_sat) ==
    IF invoice_amount_sat \in TruncatedAmounts
    THEN invoice_amount_sat - 1
    ELSE invoice_amount_sat


(***************************************************************************)
(* OrderResponseHandler.is_order_resp_valid (customer.py:150-213): the     *)
(* five checks in their order; failed names the first that fails.          *)
(*   ad: selected_ad;  opts: the order the customer sent (self.opts).      *)
(***************************************************************************)
ValidResp == [is_valid |-> TRUE, failed |-> "none"]

InvalidResp(failed) == [is_valid |-> FALSE, failed |-> failed]

is_order_resp_valid(ad, opts, order_resp) ==
    LET receiver_pubkey == order_resp.invoice_pubkey
        invoice_total == invoice_order_total_sat(order_resp.invoice_amount_sat)
        requested_capacity == opts.lsp_balance_sat + opts.client_balance_sat
        expected_fee_total ==
            capacity_ppm_whole(ad.fixed_cost_sats, ad.variable_cost_ppm,
                               requested_capacity)
        expected_total_cost == expected_fee_total + opts.client_balance_sat
    IN  IF ad.lsp_pubkey # receiver_pubkey
        THEN InvalidResp("destination")
        ELSE IF order_resp.order_total_sat # invoice_total
        THEN InvalidResp("invoice_amount")
        ELSE IF expected_fee_total # order_resp.fee_total_sat
        THEN InvalidResp("fee")
        ELSE IF expected_total_cost # order_resp.order_total_sat
        THEN InvalidResp("total")
        ELSE IF expected_total_cost # invoice_total
        THEN InvalidResp("expected_invoice_amount")
        ELSE ValidResp

\* OrderResponseHandler._process_order_response (customer.py:215-249) on an
\* OrderResponse: what it hands to the user or the response queue
_process_order_response(ad, opts, order_resp) ==
    LET resp_validated == is_order_resp_valid(ad, opts, order_resp)
    IN  IF resp_validated.is_valid
        THEN [kind |-> "OrderResponse", code |-> "None",
              error |-> resp_validated.failed]
        ELSE [kind |-> "OrderErrorResponse", code |-> "option_mismatch",
              error |-> resp_validated.failed]

(***************************************************************************)
(* The validator on its own: every order against every offer of the        *)
(* ranges below.  Offers keep min <= max for each bound, as AdSettings     *)
(* enforces (settings.py:273-289).                                         *)
(***************************************************************************)
OrderInputs ==
    [d : {"ad"},
     lsp_balance_sat : 0..MaxBalance,
     client_balance_sat : 0..MaxBalance,
     required_channel_confirmations : 0..MaxConfs,
     funding_confirms_within_blocks : 0..MaxConfs,
     channel_expiry_blocks : 1..MaxExpiry]

AdInputs ==
    [d : {"ad"},
     status : {"active"},
     min_initial_lsp_balance_sat : {0, 1},
     max_initial_lsp_balance_sat : {2, 3},
     min_initial_client_balance_sat : {0, 1},
     max_initial_client_balance_sat : {1, 2},
     min_channel_balance_sat : {2},
     max_channel_balance_sat : {3, 4},
     min_required_channel_confirmations : {0, 1},
     min_funding_confirms_within_blocks : {2},
     max_channel_expiry_blocks : {1, 2}]

NoTask == [o \in 1..NumOrders |-> "none"]

NoAds == [is_none |-> TRUE, ads |-> << >>]

OrchIdle ==
    /\ active_ads = NoAds
    /\ pc = [o \in 1..NumOrders |-> "queued"]
    /\ order_of = [o \in 1..NumOrders |-> OrderOf("none", 0)]
    /\ check = NoTask
    /\ inv_state = NoTask
    /\ update = NoTask
    /\ npending = [o \in 1..NumOrders |-> 0]
    /\ ended = NoTask
    /\ events = [o \in 1..NumOrders |-> << >>]
    /\ lease_log = << >>

InitValidate ==
    /\ fn_in \in [order : OrderInputs, ad : AdInputs]
    /\ fn_out = [called |-> FALSE, result |-> Valid]
    /\ OrchIdle
    /\ ad_events = "none"
    /\ router = "none"
    /\ watcher = "none"

ValidateStep ==
    /\ ~fn_out.called
    /\ fn_out' = [called |-> TRUE,
                  result |-> validate_order(fn_in.order, fn_in.ad)]
    /\ UNCHANGED <<ad_events, fn_in, orch_vars, router, watcher>>

NextValidate == ValidateStep

SpecValidate == InitValidate /\ [][NextValidate]_vars

(***************************************************************************)
(* The six constraints of an order against an offer, in the order the      *)
(* validator is documented to apply them.                                  *)
(***************************************************************************)
ConstraintHolds(k, order, ad) ==
    CASE k = 1 -> /\ order.lsp_balance_sat >= ad.min_initial_lsp_balance_sat
                  /\ order.lsp_balance_sat <= ad.max_initial_lsp_balance_sat
      [] k = 2 -> /\ order.client_balance_sat >= ad.min_initial_client_balance_sat
                  /\ order.client_balance_sat <= ad.max_initial_client_balance_sat
      [] k = 3 -> /\ total_capacity(order) >= ad.min_channel_balance_sat
                  /\ total_capacity(order) <= ad.max_channel_balance_sat
      [] k = 4 -> order.required_channel_confirmations
                      >= ad.min_required_channel_confirmations
      [] k = 5 -> order.funding_confirms_within_blocks
                      >= ad.min_funding_confirms_within_blocks
      [] k = 6 -> order.channel_expiry_blocks <= ad.max_channel_expiry_blocks

Violated(order, ad) == {k \in 1..6 : ~ConstraintHolds(k, order, ad)}

MessagesOf(k) ==
    CASE k = 1 -> {"lsp_balance_sat < min_initial_lsp_balance_sat",
                   "lsp_balance_sat > max_initial_lsp_balance_sat"}
      [] k = 2 -> {"client_balance_sat < min_initial_client_balance_sat",
                   "client_balance_sat > max_initial_client_balance_sat"}
      [] k = 3 -> {"client_balance_sat + lsp_balance_sat < min_channel_balance_sat",
                   "client_balance_sat + lsp_balance_sat > max_channel_balance_sat"}
      [] k = 4 -> {"required_channel_confirmations < min_required_channel_confirmations"}
      [] k = 5 -> {"funding_confirms_within_blocks < min_funding_confirms_within_blocks"}
      [] k = 6 -> {"channel_expiry_blocks > max_channel_expiry_blocks"}

SidesInRange(order, ad) ==
    ConstraintHolds(1, order, ad) /\ ConstraintHolds(2, order, ad)

\* C9: validate_order succeeds exactly when the six constraints all hold and
\* otherwise fails with code option_mismatch; with the per-side balances in
\* range (and the confirmation and expiry constraints met), capacity equal to
\* min_cap or max_cap passes, and capacity min_cap - 1 or max_cap + 1 fails
\* with the message naming min_channel_balance_sat / max_channel_balance_sat.
C9_ValidateExact ==
    fn_out.called =>
        LET order == fn_in.order
            ad == fn_in.ad
            r == fn_out.result
            rest == \A k \in 4..6 : ConstraintHolds(k, order, ad)
        IN  /\ r.is_valid <=> Violated(order, ad) = {}
            /\ ~r.is_valid => /\ r.error_code = "option_mismatch"
                              /\ OrderErrorCode[r.error_code] = 100
            /\ (SidesInRange(order, ad) /\ rest
                  /\ total_capacity(order) \in {ad.min_channel_balance_sat,
                                                ad.max_channel_balance_sat})
                  => r.is_valid
            /\ (SidesInRange(order, ad)
                  /\ total_capacity(order) = ad.min_channel_balance_sat - 1)
                  => /\ ~r.is_valid
                     /\ r.error_message =
                          "client_balance_sat + lsp_balance_sat < min_channel_balance_sat"
            /\ (SidesInRange(order, ad)
                  /\ total_capacity(order) = ad.max_channel_balance_sat + 1)
                  => /\ ~r.is_valid
                     /\ r.error_message =
                          "client_balance_sat + lsp_balance_sat > max_channel_balance_sat"

C9_Witness ==
    /\ fn_out.called
    /\ fn_out.result.is_valid
    /\ total_capacity(fn_in.order) = fn_in.ad.max_channel_balance_sat

\* C10: when an order violates several constraints at once, the reported
\* message names the first violated one in the order LSP-side balance,
\* client-side balance, total capacity, required confirmations, funding
\* confirmations, expiry.
C10_FirstViolationReported ==
    (fn_out.called /\ Violated(fn_in.order, fn_in.ad) # {}) =>
        LET bad == Violated(fn_in.order, fn_in.ad)
            first == CHOOSE k \in bad : \A j \in bad : k <= j
        IN  /\ ~fn_out.result.is_valid
            /\ fn_out.result.error_message \in MessagesOf(first)

C10_Witness ==
    /\ fn_out.called
    /\ Cardinality(Violated(fn_in.order, fn_in.ad)) >= 3
    /\ 1 \notin Violated(fn_in.order, fn_in.ad)


(***************************************************************************)
(* The LSP daemon: the order handler is started with nothing retained      *)
(* (AdHandler.__init__, lsp.py:93-107, active_ads is None) and takes       *)
(* NumOrders order requests, each in a task of its own.                    *)
(***************************************************************************)
Init ==
    /\ fn_in = "none"
    /\ fn_out = "none"
    /\ OrchIdle
    /\ ad_events = "none"
    /\ router = "none"
    /\ watcher = "none"

Next ==
    \/ cmd_publish_ad
    \/ \E o \in Tasks : _listen(o)
    \/ \E o \in Tasks : VerifyOrder(o)
    \/ \E o \in Tasks : _prepare_order(o)
    \/ \E o \in Tasks : SendOrderResponse(o)
    \/ \E o \in Tasks : InvoiceUpdate(o)
    \/ \E o \in Tasks : NextUpdate(o)
    \/ \E o \in Tasks : SendUpdateDM(o)
    \/ \E o \in Tasks : RepublishPending(o)
    \/ \E o \in Tasks : SettleDone(o)
    \/ \E o \in Tasks : FinalDM(o)
    \/ \E o \in Tasks : _append_lease_sale_to_output_file(o)
    \/ \E o \in Tasks : RepublishOpen(o)
    \/ \E o \in Tasks : CancelDone(o)

Spec == Init /\ [][Next]_vars

(***************************************************************************)
(* Properties of the order tasks.                                          *)
(***************************************************************************)
CreateInvoice == Ev("rpc", "create_hodl_invoice")
OpenChannel == Ev("rpc", "open_channel")
Settle == Ev("rpc", "settle_hodl_invoice")
Cancel == Ev("rpc", "cancel_hodl_invoice")

Done(o) == pc[o] = "done"

LeasesOf(o) == {i \in 1..Len(lease_log) : lease_log[i].task = o}

\* the position of the first occurrence of e in the log of o (0: none)
First(o, e) ==
    IF Has(o, e)
    THEN CHOOSE i \in 1..Len(events[o]) :
            /\ events[o][i] = e
            /\ \A j \in 1..(i - 1) : events[o][j] # e
    ELSE 0

(* C1: settle_hodl_invoice is called for an order only after that order's  *)
(* channel-open stream, started before, has yielded OPEN, and OPEN is the  *)
(* latest update at the time of the call: never before open_channel, never *)
(* while the latest update is PENDING or UNKNOWN.                          *)
C1_SettleOnlyAfterOpen ==
    \A o \in Tasks : \A i \in 1..Len(events[o]) :
        events[o][i] = Settle =>
            \E j \in 1..(i - 1) :
                /\ events[o][j] = Ev("update", "OPEN")
                /\ \A k \in (j + 1)..(i - 1) : events[o][k].t # "update"
                /\ \E h \in 1..(j - 1) : events[o][h] = OpenChannel

C1_Witness ==
    \E o \in Tasks :
        /\ Has(o, Settle)
        /\ Has(o, Ev("update", "PENDING"))
        /\ ended[o] = "record_lease"

(* C2: a task for which a hodl invoice was created and that ends without   *)
(* having recorded the lease has called cancel_hodl_invoice before it      *)
(* ends.                                                                   *)
C2_CancelBeforeTaskEnds ==
    \A o \in Tasks :
        (Done(o) /\ Has(o, CreateInvoice) /\ LeasesOf(o) = {})
            => Has(o, Cancel)

C4_UnknownCancels ==
    \A o \in Tasks :
        (Done(o) /\ Has(o, Ev("update", "UNKNOWN"))) =>
            /\ Has(o, Cancel)
            /\ ~Has(o, Settle)
            /\ ~Has(o, Ev("dm_update", "OPEN"))
            /\ ~Has(o, Ev("dm_final", "OPEN"))

(* C5: when a task has ended, the lease log holds exactly one record of it *)
(* if its channel reached OPEN, written after its settle call, and none    *)
(* otherwise.                                                              *)
C5_OneLeasePerOpen ==
    \A o \in Tasks :
        /\ Done(o) =>
              Cardinality(LeasesOf(o)) =
                  IF Has(o, Ev("update", "OPEN")) THEN 1 ELSE 0
        /\ LeasesOf(o) # {} => Has(o, Settle)

(* C6: an invoice is created and an OrderResponse sent only for an order   *)
(* that passed validation, solvency and connect; a task whose order failed *)
(* one of the three, and whose DM send did not fail, has sent an           *)
(* OrderError with code option_mismatch or invalid_params.                 *)
C6_VerifiedOrAnswered ==
    \A o \in Tasks :
        /\ (Has(o, CreateInvoice) \/ Has(o, Ev("dm_response", "CREATED")))
              => check[o] = "ok"
        /\ (Done(o) /\ ended[o] # "dm_raise"
              /\ check[o] \in {"invalid", "utxo_fetch", "insolvent", "connect"})
              => \E code \in DOMAIN OrderErrorCode : Has(o, Ev("dm_error", code))

(* C7: a task whose order was valid and fundable but whose connect_peer    *)
(* failed, and whose DM send did not fail, has sent an OrderError with     *)
(* code connection_error and created no invoice.                           *)
C7_ConnectionErrorAnswered ==
    \A o \in Tasks :
        (Done(o) /\ ended[o] # "dm_raise" /\ check[o] = "connect") =>
            /\ Has(o, Ev("dm_error", "connection_error"))
            /\ ~Has(o, CreateInvoice)

(* C8: a task that has ended, and whose DM send did not fail, has sent its *)
(* customer an OrderError or an OrderResponse with state CREATED.          *)
C8_EveryOrderAnswered ==
    \A o \in Tasks :
        (Done(o) /\ ended[o] # "dm_raise") =>
            \/ \E code \in DOMAIN OrderErrorCode : Has(o, Ev("dm_error", code))
            \/ Has(o, Ev("dm_response", "CREATED"))

(***************************************************************************)
(* The customer's validator on its own: an offer with its price, an order  *)
(* that passes validate_order against it, and an OrderResponse that is     *)
(* either the one the LSP builds for the order or any other one.           *)
(***************************************************************************)
CostAds ==
    { [options EXCEPT !.max_initial_client_balance_sat = 1000000]
        @@ [lsp_pubkey |-> "lsp-node", fixed_cost_sats |-> f,
            variable_cost_ppm |-> v] :
        f \in {0, 75000}, v \in {0, 10000} }

CostOrders ==
    { [OrderOf(AdId, l) EXCEPT !.client_balance_sat = c,
                               !.channel_expiry_blocks = e] :
        l \in {1000000, 5000000}, c \in {0, 1000000}, e \in {4320, 12960} }

expected_total_cost(ad, opts) ==
    capacity_ppm_whole(ad.fixed_cost_sats, ad.variable_cost_ppm,
                       opts.lsp_balance_sat + opts.client_balance_sat)
        + opts.client_balance_sat

ResponsesFor(ad, opts) ==
    LET total == expected_total_cost(ad, opts)
        fee == total - opts.client_balance_sat
    IN  [invoice_pubkey : {ad.lsp_pubkey, "other-node"},
         invoice_amount_sat : {total, total + 1},
         fee_total_sat : {fee, fee + 1},
         order_total_sat : {total, total + 1}]

InitCustomer ==
    /\ \E ad \in CostAds, opts \in CostOrders :
         \/ fn_in = [ad |-> ad, opts |-> opts, from |-> "lsp",
                     order_resp |-> OrderResponseOf(ad, opts)]
         \/ \E r \in ResponsesFor(ad, opts) :
                fn_in = [ad |-> ad, opts |-> opts, from |-> "any",
                         order_resp |-> r]
    /\ fn_out = [called |-> FALSE, result |-> ValidResp,
                 processed |-> [kind |-> "none", code |-> "None", error |-> "none"]]
    /\ OrchIdle
    /\ ad_events = "none"
    /\ router = "none"
    /\ watcher = "none"

handle_order_response ==
    /\ ~fn_out.called
    /\ fn_out' = [called |-> TRUE,
                  result |-> is_order_resp_valid(fn_in.ad, fn_in.opts,
                                                 fn_in.order_resp),
                  processed |-> _process_order_response(fn_in.ad, fn_in.opts,
                                                        fn_in.order_resp)]
    /\ UNCHANGED <<ad_events, fn_in, orch_vars, router, watcher>>

NextCustomer == handle_order_response

SpecCustomer == InitCustomer /\ [][NextCustomer]_vars

\* the fee of the pricing rule: fixed + round(ppm * 1e-6 * capacity * expiry / max_expiry)
PricingRuleFee(ad, opts) ==
    LET v == ad.variable_cost_ppm
               * ((opts.lsp_balance_sat + opts.client_balance_sat) \div 1000000)
        m == ad.max_channel_expiry_blocks
    IN  ad.fixed_cost_sats
          + RoundSum((v \div m) * opts.channel_expiry_blocks,
                     (v % m) * opts.channel_expiry_blocks, m)

(* C11: the OrderResponse the LSP builds for an order that passes          *)
(* validate_order against the offer is accepted by is_order_resp_valid.    *)
C11_LspResponseAccepted ==
    (fn_out.called /\ fn_in.from = "lsp"
        /\ validate_order(fn_in.opts, fn_in.ad).is_valid)
        => fn_out.result.is_valid

(* C12: the fee of the LSP's OrderResponse is fixed_cost +                 *)
(* round(variable_ppm * 1e-6 * capacity * expiry / max_expiry), and        *)
(* order_total_sat and the invoice amount are that fee plus                *)
(* client_balance_sat.                                                     *)
C12_FeeFollowsPricingRule ==
    (fn_out.called /\ fn_in.from = "lsp") =>
        /\ fn_in.order_resp.fee_total_sat = PricingRuleFee(fn_in.ad, fn_in.opts)
        /\ fn_in.order_resp.order_total_sat =
              PricingRuleFee(fn_in.ad, fn_in.opts) + fn_in.opts.client_balance_sat
        /\ fn_in.order_resp.invoice_amount_sat = fn_in.order_resp.order_total_sat

(* C13: a response is accepted only if the invoice pays the offer's        *)
(* lsp_pubkey, order_total_sat is the invoice's amount, and fee and total  *)
(* are the customer's expected ones; the first failing check, in the order *)
(* destination, total vs invoice, fee, total, expected total vs invoice,   *)
(* names the error; a failing response is handed on as an OrderError.      *)
C13_AcceptsOnlyMatchingInvoice ==
    fn_out.called =>
        LET r == fn_in.order_resp
            total == expected_total_cost(fn_in.ad, fn_in.opts)
            fee == total - fn_in.opts.client_balance_sat
            fails == <<r.invoice_pubkey # fn_in.ad.lsp_pubkey,
                       r.order_total_sat # r.invoice_amount_sat,
                       r.fee_total_sat # fee,
                       r.order_total_sat # total,
                       total # r.invoice_amount_sat>>
            names == <<"destination", "invoice_amount", "fee", "total",
                       "expected_invoice_amount">>
        IN  /\ fn_out.result.is_valid <=> \A i \in 1..5 : ~fails[i]
            /\ \A i \in 1..5 :
                 (fails[i] /\ \A j \in 1..(i - 1) : ~fails[j])
                     => fn_out.result.failed = names[i]
            /\ fn_out.processed.kind =
                 IF fn_out.result.is_valid THEN "OrderResponse"
                                           ELSE "OrderErrorResponse"

(***************************************************************************)
(* Ad discovery: filter_ad_events over the events a relay query returned,  *)
(* in the order the relay returned them.  An event is its offer tags       *)
(* (lsp_pubkey, d, status), whether its tag keys cover every Ad field, and *)
(* its publisher timestamp.                                                *)
(***************************************************************************)
MaxEvents == 3
MaxTime == 2

AdEvents ==
    [lsp_pubkey : {"lsp-node", "other-node"}, d : {AdId},
     status : {"active", "inactive"}, has_ad_keys : {TRUE},
     created_at : 1..MaxTime]
    \cup [lsp_pubkey : {"lsp-node", "other-node"}, d : {AdId},
          status : {"active"}, has_ad_keys : {FALSE},
          created_at : 1..MaxTime]

pair(ev) == <<ev.lsp_pubkey, ev.d>>

\* steps 1 and 2 of the loop over events.to_vec()
passes_steps_1_2(ev) ==
    /\ ev.has_ad_keys
    /\ ~(ev.lsp_pubkey = "" \/ ev.status = "inactive")

\* one iteration of step 3 on the dict latest_by_pair (its values, in
\* insertion order of their keys)
put_latest(latest_by_pair, ev) ==
    IF \E k \in 1..Len(latest_by_pair) : pair(latest_by_pair[k]) = pair(ev)
    THEN [k \in 1..Len(latest_by_pair) |->
            IF pair(latest_by_pair[k]) = pair(ev)
               /\ ev.created_at > latest_by_pair[k].created_at
            THEN ev ELSE latest_by_pair[k]]
    ELSE Append(latest_by_pair, ev)

RECURSIVE group_latest(_, _)
group_latest(evs_and_tags, latest_by_pair) ==
    IF evs_and_tags = <<>> THEN latest_by_pair
    ELSE group_latest(Tail(evs_and_tags),
                      put_latest(latest_by_pair, Head(evs_and_tags)))

filter_ad_events(evs) ==
    group_latest(SelectSeq(evs, passes_steps_1_2), <<>>)

InitDiscovery ==
    /\ fn_in \in UNION { [1..n -> AdEvents] : n \in 0..MaxEvents }
    /\ fn_out = [called |-> FALSE, ad_events |-> <<>>]
    /\ OrchIdle
    /\ ad_events = "none"
    /\ router = "none"
    /\ watcher = "none"

get_ad_info ==
    /\ ~fn_out.called
    /\ fn_out' = [called |-> TRUE, ad_events |-> filter_ad_events(fn_in)]
    /\ UNCHANGED <<ad_events, fn_in, orch_vars, router, watcher>>

NextDiscovery == get_ad_info

SpecDiscovery == InitDiscovery /\ [][NextDiscovery]_vars

Fetched == { fn_in[i] : i \in 1..Len(fn_in) }

Retained == { fn_out.ad_events[i] : i \in 1..Len(fn_out.ad_events) }

OfferEvents == { ev \in Fetched : ev.has_ad_keys }

(* C14: discovery retains at most one offer event per (lsp_pubkey,         *)
(* offer_id) pair, and of two fetched offer events of one pair the one     *)
(* with the smaller publisher timestamp is not retained, in whatever order *)
(* the relay returned them.                                                *)
C14_OnlyNewestOfPairRetained ==
    fn_out.called =>
        /\ \A i, j \in 1..Len(fn_out.ad_events) :
             pair(fn_out.ad_events[i]) = pair(fn_out.ad_events[j]) => i = j
        /\ \A e1, e2 \in OfferEvents :
             (pair(e1) = pair(e2) /\ e1.created_at < e2.created_at)
                 => e1 \notin Retained

(* C15: when the most recent offer event of a pair is inactive, the        *)
(* discovery set has no offer for that pair, even if an older active event *)
(* of the pair was fetched too.                                            *)
C15_InactiveLatestHidesPair ==
    fn_out.called =>
        \A e \in OfferEvents :
            (e.status = "inactive"
               /\ \A o \in OfferEvents :
                    (pair(o) = pair(e) /\ o # e) => o.created_at < e.created_at)
                => \A r \in Retained : pair(r) # pair(e)

(***************************************************************************)
(* The tag codec of NostrTagsMixin.  Text is a sequence of one-character   *)
(* strings.  A field value is a record [t, v]: None, a str, an int, a      *)
(* bool, an Enum member (v is the text of its .value), a list of values or *)
(* a dict (a sequence of <<key text, value>> pairs).  A model is one       *)
(* field of a declared type; the codec treats every field alone.           *)
(***************************************************************************)
MaxLen == 2
MaxInt == 12

PyNone == [t |-> "None", v |-> <<>>]
PyStr(text) == [t |-> "str", v |-> text]
PyInt(n) == [t |-> "int", v |-> n]
PyBool(b) == [t |-> "bool", v |-> b]
PyEnum(text) == [t |-> "enum", v |-> text]
PyList(items) == [t |-> "list", v |-> items]
PyDict(items) == [t |-> "dict", v |-> items]

Digits == <<"0", "1", "2", "3", "4", "5", "6", "7", "8", "9">>

IsDigit(c) == \E i \in 1..10 : Digits[i] = c

DigitValue(c) == (CHOOSE i \in 1..10 : Digits[i] = c) - 1

\* str(n) of an int n >= 0
RECURSIVE str_int(_)
str_int(n) ==
    IF n < 10 THEN <<Digits[n + 1]>>
    ELSE str_int(n \div 10) \o <<Digits[(n % 10) + 1]>>

\* length of the run of digits at the head of s
RECURSIVE digit_run(_)
digit_run(s) ==
    IF s # <<>> /\ IsDigit(Head(s)) THEN 1 + digit_run(Tail(s)) ELSE 0

RECURSIVE int_of(_, _)
int_of(s, acc) ==
    IF s = <<>> THEN acc ELSE int_of(Tail(s), 10 * acc + DigitValue(Head(s)))

NullText == <<"n", "u", "l", "l">>
TrueText == <<"T", "r", "u", "e">>
FalseText == <<"F", "a", "l", "s", "e">>

StartsWith(s, p) == Len(s) >= Len(p) /\ SubSeq(s, 1, Len(p)) = p

Drop(s, n) == SubSeq(s, n + 1, Len(s))

\* json.dumps(val, default=str, separators=(",", ":"))
RECURSIVE json_dumps(_), json_dumps_items(_), json_dumps_pairs(_)
json_dumps(val) ==
    CASE val.t = "None" -> NullText
      [] val.t = "int" -> str_int(val.v)
      [] val.t = "bool" -> IF val.v THEN <<"t", "r", "u", "e">>
                                    ELSE <<"f", "a", "l", "s", "e">>
      [] val.t = "str" -> <<"\"">> \o val.v \o <<"\"">>
      [] val.t = "list" -> <<"[">> \o json_dumps_items(val.v) \o <<"]">>
      [] val.t = "dict" -> <<"{">> \o json_dumps_pairs(val.v) \o <<"}">>

json_dumps_items(items) ==
    IF items = <<>> THEN <<>>
    ELSE json_dumps(Head(items))
           \o (IF Len(items) > 1 THEN <<",">> ELSE <<>>)
           \o json_dumps_items(Tail(items))

json_dumps_pairs(items) ==
    IF items = <<>> THEN <<>>
    ELSE <<"\"">> \o Head(items)[1] \o <<"\"", ":">> \o json_dumps(Head(items)[2])
           \o (IF Len(items) > 1 THEN <<",">> ELSE <<>>)
           \o json_dumps_pairs(Tail(items))

\* the value model_dump_tags puts in the tag of a field
dump_tag_value(val) ==
    CASE val.t = "None" -> NullText
      [] val.t = "enum" -> val.v
      [] val.t \in {"list", "dict"} -> json_dumps(val)
      [] val.t = "str" -> val.v
      [] val.t = "int" -> str_int(val.v)
      [] val.t = "bool" -> IF val.v THEN TrueText ELSE FalseText

\* json.loads on the JSON the texts of this model can spell: arrays,
\* objects, numbers without sign or fraction, strings without escapes, null
JsonFail == [ok |-> FALSE, val |-> PyNone, rest |-> <<>>]

JsonOk(val, rest) == [ok |-> TRUE, val |-> val, rest |-> rest]

\* index of the first quote character of s, 0 if there is none
RECURSIVE quote_at(_, _)
quote_at(s, i) ==
    IF i > Len(s) THEN 0
    ELSE IF s[i] = "\"" THEN i ELSE quote_at(s, i + 1)

RECURSIVE json_value(_), json_items(_, _), json_pairs(_, _)
json_value(s) ==
    IF s = <<>> THEN JsonFail
    ELSE IF Head(s) = "[" THEN
        IF Len(s) >= 2 /\ s[2] = "]" THEN JsonOk(PyList(<<>>), Drop(s, 2))
        ELSE json_items(Tail(s), <<>>)
    ELSE IF Head(s) = "{" THEN
        IF Len(s) >= 2 /\ s[2] = "}" THEN JsonOk(PyDict(<<>>), Drop(s, 2))
        ELSE json_pairs(Tail(s), <<>>)
    ELSE IF Head(s) = "\"" THEN
        LET q == quote_at(s, 2)
        IN  IF q = 0 THEN JsonFail
            ELSE JsonOk(PyStr(SubSeq(s, 2, q - 1)), Drop(s, q))
    ELSE IF IsDigit(Head(s)) THEN
        LET n == digit_run(s)
        IN  IF Head(s) = "0" /\ n > 1 THEN JsonFail
            ELSE JsonOk(PyInt(int_of(SubSeq(s, 1, n), 0)), Drop(s, n))
    ELSE IF StartsWith(s, NullText) THEN JsonOk(PyNone, Drop(s, 4))
    ELSE IF StartsWith(s, <<"t", "r", "u", "e">>)
        THEN JsonOk(PyBool(TRUE), Drop(s, 4))
    ELSE IF StartsWith(s, <<"f", "a", "l", "s", "e">>)
        THEN JsonOk(PyBool(FALSE), Drop(s, 5))
    ELSE JsonFail

\* s follows "[" or ","; an item is due
json_items(s, acc) ==
    LET item == json_value(s)
    IN  IF ~item.ok \/ item.rest = <<>> THEN JsonFail
        ELSE IF Head(item.rest) = "]"
            THEN JsonOk(PyList(Append(acc, item.val)), Tail(item.rest))
        ELSE IF Head(item.rest) = ","
            THEN json_items(Tail(item.rest), Append(acc, item.val))
        ELSE JsonFail

\* s follows "{" or ","; a "key":value pair is due
json_pairs(s, acc) ==
    LET key == json_value(s)
    IN  IF ~key.ok \/ key.val.t # "str" \/ key.rest = <<>>
           \/ Head(key.rest) # ":"
        THEN JsonFail
        ELSE LET item == json_value(Tail(key.rest))
                 pairs == Append(acc, <<key.val.v, item.val>>)
             IN  IF ~item.ok \/ item.rest = <<>> THEN JsonFail
                 ELSE IF Head(item.rest) = "}"
                     THEN JsonOk(PyDict(pairs), Tail(item.rest))
                 ELSE IF Head(item.rest) = ","
                     THEN json_pairs(Tail(item.rest), pairs)
                 ELSE JsonFail

\* the loop body of model_from_tags: raw tag text to parsed value
parse_tag_value(raw) ==
    IF raw # <<>> /\ raw[1] \in {"{", "["}
    THEN LET parsed == json_value(raw)
         IN  IF parsed.ok /\ parsed.rest = <<>> THEN parsed.val
             ELSE PyStr(raw)
    ELSE IF raw = NullText THEN PyNone
    ELSE PyStr(raw)

\* cls(**data): the declared type of the field validates the parsed value
Constructed(val) == [raised |-> FALSE, val |-> val]

ValidationError == [raised |-> TRUE, val |-> PyNone]

OrderStateValues ==
    { <<"C", "R", "E", "A", "T", "E", "D">>, <<"F", "A", "I", "L", "E", "D">> }

validate_field(ftype, parsed) ==
    CASE parsed.t = "None" ->
            IF ftype = "Optional[str]" THEN Constructed(PyNone)
            ELSE ValidationError
      [] parsed.t = "str" ->
            CASE ftype \in {"str", "Optional[str]"} -> Constructed(parsed)
              [] ftype = "int" ->
                    IF parsed.v # <<>> /\ digit_run(parsed.v) = Len(parsed.v)
                    THEN Constructed(PyInt(int_of(parsed.v, 0)))
                    ELSE ValidationError
              [] ftype = "bool" ->
                    IF parsed.v = TrueText THEN Constructed(PyBool(TRUE))
                    ELSE IF parsed.v = FalseText THEN Constructed(PyBool(FALSE))
                    ELSE ValidationError
              [] ftype = "OrderState" ->
                    IF parsed.v \in OrderStateValues
                    THEN Constructed(PyEnum(parsed.v))
                    ELSE ValidationError
              [] OTHER -> ValidationError
      [] parsed.t = "list" ->
            IF ftype = "List[int]"
               /\ \A i \in 1..Len(parsed.v) : parsed.v[i].t = "int"
            THEN Constructed(parsed) ELSE ValidationError
      [] parsed.t = "dict" ->
            IF ftype = "Dict[str,int]"
               /\ \A i \in 1..Len(parsed.v) : parsed.v[i][2].t = "int"
            THEN Constructed(parsed) ELSE ValidationError

model_dump_tags(M) == dump_tag_value(M.val)

model_from_tags(ftype, raw) == validate_field(ftype, parse_tag_value(raw))

Chars == {"a", "1", "[", "]", "{", "}"}

StrValues ==
    UNION { [1..n -> Chars] : n \in 0..MaxLen }
        \cup {NullText, <<"[", "1", "]">>}

IntItems == { PyInt(n) : n \in {0, MaxInt} }

InitCodec ==
    /\ \/ \E text \in StrValues, ftype \in {"str", "Optional[str]"} :
            fn_in = [ftype |-> ftype, val |-> PyStr(text)]
       \/ fn_in = [ftype |-> "Optional[str]", val |-> PyNone]
       \/ \E n \in 0..MaxInt : fn_in = [ftype |-> "int", val |-> PyInt(n)]
       \/ \E b \in BOOLEAN : fn_in = [ftype |-> "bool", val |-> PyBool(b)]
       \/ \E text \in OrderStateValues :
            fn_in = [ftype |-> "OrderState", val |-> PyEnum(text)]
       \/ \E items \in UNION { [1..n -> IntItems] : n \in 0..2 } :
            fn_in = [ftype |-> "List[int]", val |-> PyList(items)]
       \/ \E items \in UNION { [1..n -> {<<"a">>, <<"1">>} \X IntItems] : n \in 0..1 } :
            fn_in = [ftype |-> "Dict[str,int]", val |-> PyDict(items)]
    /\ fn_out = [called |-> FALSE, raised |-> FALSE, val |-> PyNone]
    /\ OrchIdle
    /\ ad_events = "none"
    /\ router = "none"
    /\ watcher = "none"

RoundTrip ==
    /\ ~fn_out.called
    /\ fn_out' = [called |-> TRUE]
                   @@ model_from_tags(fn_in.ftype, model_dump_tags(fn_in))
    /\ UNCHANGED <<ad_events, fn_in, orch_vars, router, watcher>>

NextCodec == RoundTrip

SpecCodec == InitCodec /\ [][NextCodec]_vars

(* C16: decoding the tags a model was encoded to gives the model back, for *)
(* None, enum, list, map, string, integer and boolean fields, strings      *)
(* "null" and strings beginning with '{' or '[' included.                  *)
C16_TagRoundTrip ==
    fn_out.called =>
        /\ ~fn_out.raised
        /\ fn_out.val.t = fn_in.val.t
        /\ fn_out.val.v = fn_in.val.v

(***************************************************************************)
(* The DM rumor router on the customer's side: Nip17NotificationHandler    *)
(* pushes unwrapped rumors on RumorHandler._queue; the two listener tasks  *)
(* of OrderResponseHandler each iterate that one queue.  router.getters    *)
(* are the consumers suspended in Queue.get(), router.ready the consumers  *)
(* the event loop will run next, in order.                                 *)
(***************************************************************************)
MaxRumors == 3
SubscriptionStart == 1

Consumers == <<"order_responses", "channel_open_responses">>

\* the events a relay can deliver: a rumor that passes every test of
\* handle(), and events that fail one of them
GiftWrapEvents ==
    [gift_wrap : {TRUE}, unwraps : {TRUE}, created_at : {SubscriptionStart + 1},
     kind : {"PRIVATE_DIRECT_MESSAGE"}, well_formed : {TRUE},
     tag_keys : {"OrderResponse", "OrderErrorResponse", "ChannelOpenResponse",
                 "other"}]
    \cup
    { [gift_wrap |-> g, unwraps |-> u, created_at |-> t, kind |-> k,
       well_formed |-> w, tag_keys |-> "OrderResponse"] :
        <<g, u, t, k, w>> \in
          { <<TRUE, TRUE, SubscriptionStart, "PRIVATE_DIRECT_MESSAGE", TRUE>>,
            <<TRUE, TRUE, SubscriptionStart, "PRIVATE_DIRECT_MESSAGE", FALSE>>,
            <<FALSE, TRUE, SubscriptionStart, "PRIVATE_DIRECT_MESSAGE", TRUE>>,
            <<TRUE, FALSE, SubscriptionStart, "PRIVATE_DIRECT_MESSAGE", TRUE>>,
            <<TRUE, TRUE, SubscriptionStart - 1, "PRIVATE_DIRECT_MESSAGE", TRUE>>,
            <<TRUE, TRUE, SubscriptionStart, "TEXT_NOTE", TRUE>> } }

\* Nip17NotificationHandler.handle without its timestamp test
passes_handle_any_age(ev) ==
    /\ ev.gift_wrap
    /\ ev.unwraps
    /\ ev.kind = "PRIVATE_DIRECT_MESSAGE"

\* the tests of Nip17NotificationHandler.handle before on_new_rumor
passes_handle(ev) ==
    /\ ev.gift_wrap
    /\ ev.unwraps
    /\ ev.created_at >= SubscriptionStart
    /\ ev.kind = "PRIVATE_DIRECT_MESSAGE"

\* Queue.put_nowait: append, then wake the first suspended getter
on_new_rumor(r, rumor) ==
    [r EXCEPT !.queue = Append(@, rumor),
              !.enqueued = @ + 1,
              !.getters = IF @ = <<>> THEN @ ELSE Tail(@),
              !.ready = IF r.getters = <<>> THEN @
                        ELSE Append(@, Head(r.getters))]

handle(ev) ==
    /\ router.handled < MaxRumors
    /\ router' =
         LET r == [router EXCEPT !.handled = @ + 1]
         IN  IF passes_handle(ev)
             THEN on_new_rumor(r, ev @@ [id |-> router.enqueued + 1])
             ELSE r
    /\ UNCHANGED <<ad_events, fn_in, fn_out, orch_vars, watcher>>

\* what the body of one typed stream does with a rumor it dequeued
stream_body(c, rumor) ==
    LET mine == IF c = "order_responses"
                THEN rumor.tag_keys \in {"OrderResponse", "OrderErrorResponse"}
                ELSE rumor.tag_keys = "ChannelOpenResponse"
    IN  IF ~mine THEN "skip"
        ELSE IF rumor.well_formed THEN "yield" ELSE "raise"

\* one run of a listener task: it takes rumors until the queue is empty and
\* then suspends in Queue.get(), or ends on an exception of model_from_tags
RECURSIVE _listener(_, _)
_listener(c, r) ==
    IF r.queue = <<>> THEN [r EXCEPT !.getters = Append(@, c)]
    ELSE LET rumor == Head(r.queue)
             rest == [r EXCEPT !.queue = Tail(@)]
             does == stream_body(c, rumor)
         IN  IF does = "raise" THEN [rest EXCEPT !.done = @ \cup {c}]
             ELSE IF does = "yield"
             THEN _listener(c, [rest EXCEPT !.streams[c] = Append(@, rumor)])
             ELSE _listener(c, [rest EXCEPT !.dropped = Append(@, rumor)])

RunListener ==
    /\ router.ready # <<>>
    /\ router' = _listener(Head(router.ready),
                           [router EXCEPT !.ready = Tail(@)])
    /\ UNCHANGED <<ad_events, fn_in, fn_out, orch_vars, watcher>>

InitRouter ==
    /\ router = [queue |-> <<>>, getters |-> <<>>, ready |-> Consumers,
                 done |-> {}, dropped |-> <<>>, handled |-> 0, enqueued |-> 0,
                 streams |-> [order_responses |-> <<>>,
                              channel_open_responses |-> <<>>]]
    /\ fn_in = "none"
    /\ fn_out = "none"
    /\ watcher = "none"
    /\ OrchIdle
    /\ ad_events = "none"

NextRouter ==
    \/ \E ev \in GiftWrapEvents : handle(ev)
    \/ RunListener

SpecRouter == InitRouter /\ [][NextRouter]_vars

AsSet(s) == { s[i] : i \in 1..Len(s) }

(* C17: every rumor taken off the queue is classified against all message *)
(* types: none whose tags cover OrderResponse, {error_message, code} or    *)
(* ChannelOpenResponse is discarded by the consumer that dequeued it, and  *)
(* each stream carries only rumors of its own types.                       *)
C17_RumorReachesItsStream ==
    /\ \A rumor \in AsSet(router.dropped) : rumor.tag_keys = "other"
    /\ \A rumor \in AsSet(router.streams.order_responses) :
         rumor.tag_keys \in {"OrderResponse", "OrderErrorResponse"}
    /\ \A rumor \in AsSet(router.streams.channel_open_responses) :
         rumor.tag_keys = "ChannelOpenResponse"

MaxTicks == 4

ProbeOutcomes == {"healthy", "unhealthy", "raise"}

has_published_ads(ads) == ~ads.is_none

active_in_ad_statuses(ads) ==
    /\ ~ads.is_none
    /\ \E d \in DOMAIN ads.ads : ads.ads[d].status = "active"

TickResult(ads, calls, caught, deactivation) ==
    [ads |-> ads, calls |-> calls, caught |-> caught,
     deactivation |-> deactivation, alive |-> TRUE]

\* an exception handler that only logs
handle_tick_exception_logs_only(ads, calls, send2) ==
    TickResult(ads, calls, TRUE, "none")

\* lines 74-89: the handler of an exception raised in the tick
handle_tick_exception(ads, calls, send2) ==
    IF has_published_ads(ads) /\ active_in_ad_statuses(ads)
    THEN TickResult(inactivate_ads(ads, send2),
                    Append(calls, "inactivate_ads"), TRUE, send2)
    ELSE TickResult(ads, calls, TRUE, "none")

\* an unhealthy branch that leaves the ads alone
unhealthy_tick_idle(ads, send, send2) ==
    TickResult(ads, <<>>, FALSE, "none")

\* lines 65-72: the probe answered unhealthy
unhealthy_tick(ads, send, send2) ==
    IF has_published_ads(ads) /\ active_in_ad_statuses(ads)
    THEN IF send = "raise"
         THEN handle_tick_exception(ads, <<"inactivate_ads">>, send2)
         ELSE TickResult(inactivate_ads(ads, send), <<"inactivate_ads">>,
                         FALSE, send)
    ELSE TickResult(ads, <<>>, FALSE, "none")

\* lines 44-64: the probe answered healthy.  build_ad (lsp.py:75) takes a
\* positional pubkey that self.ad_handler.options does not hold, so the
\* call of line 62 raises.
healthy_tick(ads, pub, send2) ==
    IF ~has_published_ads(ads)
    THEN TickResult(pub.ads, <<"publish_ad">>, FALSE, "none")
    ELSE LET ad == ads.ads[CHOOSE d \in DOMAIN ads.ads : TRUE]
         IN  IF ad.status # "active"
             THEN IF pub.raised
                  THEN handle_tick_exception(pub.ads, <<"publish_ad">>, send2)
                  ELSE TickResult(pub.ads, <<"publish_ad">>, FALSE, "none")
             ELSE handle_tick_exception(ads, <<"build_ad">>, send2)

health_tick(ads, probe, pub, send, send2) ==
    CASE probe = "raise" -> handle_tick_exception(ads, <<>>, send2)
      [] probe = "healthy" -> healthy_tick(ads, pub, send2)
      [] probe = "unhealthy" -> unhealthy_tick(ads, send, send2)

TickOutcomes(ads) ==
    { [probe |-> probe, before |-> ads]
        @@ health_tick(ads, probe, pub, send, send2) :
        probe \in ProbeOutcomes, pub \in PublishOutcomes(ads),
        send \in SendOutcomes, send2 \in SendOutcomes }

_check_node_health ==
    /\ watcher.alive
    /\ watcher.ticks < MaxTicks
    /\ \E t \in TickOutcomes(active_ads) :
         /\ active_ads' = t.ads
         /\ watcher' = [alive |-> t.alive,
                        ticks |-> watcher.ticks + 1,
                        exceptions |-> watcher.exceptions
                                         + (IF t.caught THEN 1 ELSE 0),
                        last |-> [probe |-> t.probe, before |-> t.before,
                                  calls |-> t.calls, caught |-> t.caught,
                                  deactivation |-> t.deactivation]]
    /\ UNCHANGED <<ad_events, fn_in, fn_out, router, pc, order_of, check, inv_state,
                   update, npending, ended, events, lease_log>>

InitWatcher ==
    /\ OrchIdle
    /\ ad_events = "none"
    /\ fn_in = "none"
    /\ fn_out = "none"
    /\ router = "none"
    /\ watcher = [alive |-> TRUE, ticks |-> 0, exceptions |-> 0,
                  last |-> [probe |-> "none", before |-> NoAds, calls |-> <<>>,
                            caught |-> FALSE, deactivation |-> "none"]]

NextWatcher == _check_node_health

SpecWatcher == InitWatcher /\ [][NextWatcher]_vars

SomeActive(ads) ==
    /\ ~ads.is_none
    /\ \E d \in DOMAIN ads.ads : ads.ads[d].status = "active"

Called(name) ==
    \E i \in 1..Len(watcher.last.calls) : watcher.last.calls[i] = name

NoPublishOnUnhealthyTick ==
    watcher.last.probe = "unhealthy" =>
        /\ ~Called("publish_ad")
        /\ ~SomeActive(watcher.last.before) => ~SomeActive(active_ads)

(* C19 as stated: after an unhealthy tick that began with an active ad, no *)
(* retained ad is active; an unhealthy tick publishes and re-activates     *)
(* nothing.                                                                *)
C19_UnhealthyTickDeactivates ==
    /\ NoPublishOnUnhealthyTick
    /\ (watcher.last.probe = "unhealthy" /\ SomeActive(watcher.last.before))
           => ~SomeActive(active_ads)

(* C19, amended: an unhealthy tick that began with an active ad sends the  *)
(* deactivation in that tick, and no retained ad is active after it if the *)
(* relay accepted the event; an unhealthy tick publishes and re-activates  *)
(* nothing.                                                                *)
C19_UnhealthyTickSendsDeactivation ==
    /\ NoPublishOnUnhealthyTick
    /\ (watcher.last.probe = "unhealthy" /\ SomeActive(watcher.last.before))
           => /\ Called("inactivate_ads")
              /\ watcher.last.deactivation = "ok" => ~SomeActive(active_ads)

C19_Witness ==
    /\ watcher.last.probe = "unhealthy"
    /\ SomeActive(watcher.last.before)
    /\ watcher.last.deactivation = "ok"
    /\ ~SomeActive(active_ads)

(* C20 as stated: an exception raised in a tick is caught, the loop goes   *)
(* on, and no retained ad is active once the exception is handled.         *)
C20_ExceptionDeactivates ==
    watcher.last.caught =>
        /\ watcher.alive
        /\ SomeActive(watcher.last.before) => ~SomeActive(active_ads)

(* C20, amended: an exception raised in a tick is caught and the loop goes *)
(* on; if an ad was active, handling the exception sends its deactivation, *)
(* and no retained ad is active afterwards if the relay accepted it.       *)
C20_ExceptionSendsDeactivation ==
    /\ watcher.alive
    /\ watcher.last.caught =>
        (SomeActive(watcher.last.before) =>
            /\ Called("inactivate_ads")
            /\ watcher.last.deactivation = "ok" => ~SomeActive(active_ads))

C20_Witness ==
    /\ watcher.last.caught
    /\ watcher.exceptions >= 2
    /\ SomeActive(watcher.last.before)
    /\ ~SomeActive(active_ads)

(* C21: a healthy tick that begins with a retained active ad republishes   *)
(* only when the offer to publish differs from the retained one, and       *)
(* otherwise emits nothing: it sends no deactivation, the ad is active     *)
(* after it, and the retained ad changes only through publish_ad.          *)
C21_HealthyTickKeepsAdActive ==
    (watcher.last.probe = "healthy" /\ SomeActive(watcher.last.before)) =>
        /\ ~Called("inactivate_ads")
        /\ SomeActive(active_ads)
        /\ Called("publish_ad") <=> active_ads # watcher.last.before

(***************************************************************************)
(* The ad lifecycle manager on its own (specification SpecAds): one        *)
(* AdHandler, configured at construction with one of a few valid settings, *)
(* whose publish_ad and inactivate_ads are called in any order against     *)
(* whatever the node, the wallet and the relay answer.  Here the events    *)
(* are followed too: ad_events is AdEventData.ad_events and fn_out records *)
(* the last call with the events it handed to the relay.                   *)
(***************************************************************************)

\* AdSettings the validators accept (settings.py:273-289): the defaults, a
\* floor for the LSP's own balance, and a lower ceiling for the channel
AdOptions ==
    { options,
      [options EXCEPT !.min_initial_lsp_balance_sat = 6000000],
      [options EXCEPT !.max_channel_balance_sat = 4000000,
                      !.max_initial_lsp_balance_sat = 4000000] }

\* CustomAdSettings (settings.py:320-326): no validator constrains them
CustomAdOptions ==
    { custom_options,
      [custom_options EXCEPT !.channel_max_bucket = 1000000],
      [custom_options EXCEPT !.sum_utxos_as_max_capacity = TRUE] }

\* the wallets of Wallets and three more: about 3,000,000 spendable, more
\* than any configured maximum, and one output still unconfirmed
AdWallets ==
    Wallets \cup
    { [error |-> FALSE, utxos |-> <<P2wpkh(3100000, 6)>>,
       required_reserve |-> 50000, sat_per_kw |-> 20000],
      [error |-> FALSE, utxos |-> <<P2wpkh(12000000, 6)>>,
       required_reserve |-> 50000, sat_per_kw |-> 20000],
      [error |-> FALSE, utxos |-> <<P2wpkh(2000000, 6), P2wpkh(2000000, 1)>>,
       required_reserve |-> 50000, sat_per_kw |-> 20000] }

\* the node statistics get_lsp_data reads for the event's content
NodeStats == {1, 2}

(***************************************************************************)
(* AdHandler.adjust_ad_max_capacity (lsp.py:228-272) with the two custom   *)
(* settings publish_ad passes it (lsp.py:128-134).  0 stands for None.     *)
(***************************************************************************)
available_funds(w) ==
    spendable_amount(w.utxos) - w.required_reserve
        - spend_all_cost(w.utxos, w.sat_per_kw)

AdHandler_adjust_ad_max_capacity(ad, custom, w) ==
    IF w.error THEN 0
    ELSE IF available_funds(w) < ad.min_channel_balance_sat THEN 0
    ELSE IF custom.sum_utxos_as_max_capacity THEN available_funds(w)
    ELSE IF available_funds(w) < ad.max_channel_balance_sat
         THEN available_funds(w) - (available_funds(w) % custom.channel_max_bucket)
    ELSE ad.max_channel_balance_sat

\* nostr_client.build_event (lsp.py:152-161): the tags are the ad's fields
\* (model_dump_tags) and the content carries the node statistics
build_event(tags, content) == [tags |-> tags, content |-> content]

\* what a call hands to the relay, with the relay's answer
Sent(event, send) == [event |-> event, outcome |-> send]

\* inactivate_ads dropping what it retains once the relay accepted the event
AdHandler_inactivate_ads_dropping(ads, evs, send) ==
    IF ads.is_none
    THEN [raised |-> FALSE, ads |-> ads, ad_events |-> evs, sent |-> << >>]
    ELSE LET event(d) ==
                 build_event([evs[d].tags EXCEPT !.status = "inactive"],
                             evs[d].content)
             sent == [i \in 1..Cardinality(DOMAIN evs) |->
                        Sent(event(CHOOSE d \in DOMAIN evs : TRUE), send)]
         IN  IF send = "ok"
             THEN [raised |-> FALSE,
                   ads |-> [ads EXCEPT !.ads = << >>],
                   ad_events |-> << >>,
                   sent |-> sent]
             ELSE [raised |-> send = "raise", ads |-> ads, ad_events |-> evs,
                   sent |-> sent]

(***************************************************************************)
(* AdHandler.inactivate_ads (lsp.py:169-214), update_type inactivate, on   *)
(* the retained ads and events: the result is the ads and events retained  *)
(* afterwards, the events handed to the relay, and whether the send        *)
(* raised.  publish_ad retains one offer at a time, so one answer of the   *)
(* relay decides the call.                                                 *)
(***************************************************************************)
AdHandler_inactivate_ads(ads, evs, send) ==
    IF ads.is_none
    THEN [raised |-> FALSE, ads |-> ads, ad_events |-> evs, sent |-> << >>]
    ELSE LET event(d) ==
                 build_event([evs[d].tags EXCEPT !.status = "inactive"],
                             evs[d].content)
             sent == [i \in 1..Cardinality(DOMAIN evs) |->
                        Sent(event(CHOOSE d \in DOMAIN evs : TRUE), send)]
         IN  IF send = "ok"
             THEN [raised |-> FALSE,
                   ads |-> [ads EXCEPT !.ads =
                              [d \in DOMAIN ads.ads |->
                                  [ads.ads[d] EXCEPT !.status = "inactive"]]],
                   ad_events |-> [d \in DOMAIN evs |-> event(d)],
                   sent |-> sent]
             ELSE [raised |-> send = "raise", ads |-> ads, ad_events |-> evs,
                   sent |-> sent]

\* publish_ad without the short circuit on an insufficient wallet
AdHandler_publish_ad_no_short_circuit(opts, ads, evs, w, node_ok, stats, send) ==
    IF ~node_ok
    THEN [raised |-> TRUE, ads |-> ads, ad_events |-> evs, sent |-> << >>]
    ELSE LET adjusted_max_capacity ==
                 AdHandler_adjust_ad_max_capacity(opts.ad, opts.custom, w)
             lsp_ad == [opts.ad EXCEPT
                          !.status = "active",
                          !.max_channel_balance_sat = adjusted_max_capacity,
                          !.max_initial_lsp_balance_sat = adjusted_max_capacity]
             event == build_event(lsp_ad, stats)
         IN  IF send = "raise"
             THEN [raised |-> TRUE, ads |-> ads, ad_events |-> evs,
                   sent |-> <<Sent(event, send)>>]
             ELSE [raised |-> FALSE,
                   ads |-> [is_none |-> FALSE, ads |-> (lsp_ad.d :> lsp_ad)],
                   ad_events |-> (lsp_ad.d :> event),
                   sent |-> <<Sent(event, send)>>]

(***************************************************************************)
(* AdHandler.publish_ad (lsp.py:109-167) with the handler's options        *)
(* explicit, the events included.                                          *)
(***************************************************************************)
AdHandler_publish_ad(opts, ads, evs, w, node_ok, stats, send) ==
    IF ~node_ok
    THEN [raised |-> TRUE, ads |-> ads, ad_events |-> evs, sent |-> << >>]
    ELSE LET adjusted_max_capacity ==
                 AdHandler_adjust_ad_max_capacity(opts.ad, opts.custom, w)
             lsp_ad == [opts.ad EXCEPT
                          !.status = "active",
                          !.max_channel_balance_sat = adjusted_max_capacity,
                          !.max_initial_lsp_balance_sat = adjusted_max_capacity]
             event == build_event(lsp_ad, stats)
         IN  IF adjusted_max_capacity = 0
             THEN AdHandler_inactivate_ads(ads, evs, send)
             ELSE IF send = "raise"
             THEN [raised |-> TRUE, ads |-> ads, ad_events |-> evs,
                   sent |-> <<Sent(event, send)>>]
             ELSE [raised |-> FALSE,
                   ads |-> [is_none |-> FALSE, ads |-> (lsp_ad.d :> lsp_ad)],
                   ad_events |-> (lsp_ad.d :> event),
                   sent |-> <<Sent(event, send)>>]

NoCall ==
    [op |-> "none", before |-> NoAds, before_events |-> << >>, w |-> "none",
     node_ok |-> TRUE, raised |-> FALSE, sent |-> << >>]

InitAds ==
    /\ fn_in \in [ad : AdOptions, custom : CustomAdOptions]
    /\ fn_out = NoCall
    /\ active_ads = NoAds
    /\ ad_events = << >>
    /\ pc = "none" /\ order_of = "none" /\ check = "none"
    /\ inv_state = "none" /\ update = "none" /\ npending = 0
    /\ ended = "none" /\ events = << >> /\ lease_log = << >>
    /\ router = "none" /\ watcher = "none"

AdsUnchanged ==
    UNCHANGED <<fn_in, pc, order_of, check, inv_state, update, npending,
                ended, events, lease_log, router, watcher>>

\* one call of AdHandler.publish_ad
PublishAd ==
    \E w \in AdWallets, node_ok \in BOOLEAN, stats \in NodeStats,
       send \in SendOutcomes :
        LET r == AdHandler_publish_ad(fn_in, active_ads, ad_events, w,
                                      node_ok, stats, send)
        IN  /\ active_ads' = r.ads
            /\ ad_events' = r.ad_events
            /\ fn_out' = [op |-> "publish_ad", before |-> active_ads,
                          before_events |-> ad_events, w |-> w,
                          node_ok |-> node_ok, raised |-> r.raised,
                          sent |-> r.sent]
            /\ AdsUnchanged

\* one call of AdHandler.inactivate_ads
InactivateAds ==
    \E send \in SendOutcomes :
        LET r == AdHandler_inactivate_ads(active_ads, ad_events, send)
        IN  /\ active_ads' = r.ads
            /\ ad_events' = r.ad_events
            /\ fn_out' = [op |-> "inactivate_ads", before |-> active_ads,
                          before_events |-> ad_events, w |-> "none",
                          node_ok |-> TRUE, raised |-> r.raised,
                          sent |-> r.sent]
            /\ AdsUnchanged

NextAds == PublishAd \/ InactivateAds

SpecAds == InitAds /\ [][NextAds]_vars

\* the last call was publish_ad and it got as far as asking the wallet
PublishAsked == fn_out.op = "publish_ad" /\ fn_out.node_ok

\* the wallet query fails, or confirmed UTXOs less reserve less the cost of
\* spending them all fall short of the offer's minimum channel size
Insolvent(w) ==
    \/ w.error
    \/ spendable_amount(w.utxos) - w.required_reserve
         - spend_all_cost(w.utxos, w.sat_per_kw) < fn_in.ad.min_channel_balance_sat

\* the retained event e re-emitted with status inactive
Deactivation(e) == [e EXCEPT !.tags.status = "inactive"]

BoundsOrdered(ad) ==
    /\ ad.min_channel_balance_sat <= ad.max_channel_balance_sat
    /\ ad.min_initial_lsp_balance_sat <= ad.max_initial_lsp_balance_sat
    /\ ad.min_initial_client_balance_sat <= ad.max_initial_client_balance_sat

(* C23: every offer the manager retains, and every offer event it hands to *)
(* the relay, has min <= max for each of its bounds, the channel balance   *)
(* and the initial LSP balance after the solvency adjustment included.     *)
C23_PublishedBoundsOrdered ==
    /\ ~active_ads.is_none =>
           \A d \in DOMAIN active_ads.ads : BoundsOrdered(active_ads.ads[d])
    /\ \A i \in 1..Len(fn_out.sent) : BoundsOrdered(fn_out.sent[i].event.tags)

\* the wallet of three confirmed 2,000,000-sat p2wpkh outputs, reserve
\* 50,000, fee rate 5 sat/vB
ThreeOutputsWallet ==
    [error |-> FALSE,
     utxos |-> <<P2wpkh(2000000, 6), P2wpkh(2000000, 6), P2wpkh(2000000, 6)>>,
     required_reserve |-> 50000, sat_per_kw |-> 20000]

\* the max_channel_balance_sat of the offer publish_ad has just published
PublishedMaxIs(n) ==
    /\ ~active_ads.is_none
    /\ active_ads.ads[AdId].status = "active"
    /\ active_ads.ads[AdId].max_channel_balance_sat = n
    /\ Len(fn_out.sent) = 1
    /\ fn_out.sent[1].event.tags.status = "active"
    /\ fn_out.sent[1].event.tags.max_channel_balance_sat = n

(* C24: after a publish_ad that asked a working wallet and did not raise,  *)
(* with sum_utxos_as_max_capacity unset and spendable being confirmed      *)
(* UTXOs less reserve less the spend-all cost: if min_channel_balance_sat  *)
(* <= spendable < configured max, the published max_channel_balance_sat is *)
(* spendable rounded down to a multiple of channel_max_bucket; if          *)
(* spendable >= configured max, it is the configured max; and for three    *)
(* 2,000,000-sat p2wpkh outputs, reserve 50,000, 5 sat/vB and bucket       *)
(* 5,000,000 the spend-all cost is 1383, spendable 5,948,617 and the       *)
(* published max 5,000,000.                                                *)
C24_PublishedMaxFollowsSpendable ==
    (PublishAsked /\ ~fn_out.w.error /\ ~fn_out.raised
        /\ ~fn_in.custom.sum_utxos_as_max_capacity) =>
      LET w == fn_out.w
          spendable == spendable_amount(w.utxos) - w.required_reserve
                          - spend_all_cost(w.utxos, w.sat_per_kw)
          bucket == fn_in.custom.channel_max_bucket
      IN  /\ (fn_in.ad.min_channel_balance_sat <= spendable
                  /\ spendable < fn_in.ad.max_channel_balance_sat) =>
                 PublishedMaxIs(spendable - (spendable % bucket))
          /\ spendable >= fn_in.ad.max_channel_balance_sat =>
                 PublishedMaxIs(fn_in.ad.max_channel_balance_sat)
          /\ (w = ThreeOutputsWallet /\ bucket = 5000000 /\ fn_in.ad = options) =>
                 /\ spend_all_cost(w.utxos, w.sat_per_kw) = 1383
                 /\ spendable = 5948617
                 /\ PublishedMaxIs(5000000)

\* the last call was publish_ad, it returned, and it published an offer
PublishSucceeded ==
    /\ fn_out.op = "publish_ad" /\ ~fn_out.raised
    /\ \E i \in 1..Len(fn_out.sent) : fn_out.sent[i].event.tags.status = "active"

\* the last call was inactivate_ads and it returned
InactivateReturned == fn_out.op = "inactivate_ads" /\ ~fn_out.raised

AllRetainedInactive ==
    \A d \in DOMAIN active_ads.ads : active_ads.ads[d].status = "inactive"

\* inactivate_ads kept the offer ids and re-emitted each retained event
\* with the same tags and content, the status inactive
ReemittedAsInactive ==
    /\ DOMAIN active_ads.ads = DOMAIN fn_out.before.ads
    /\ DOMAIN ad_events = DOMAIN fn_out.before_events
    /\ Len(fn_out.sent) = Cardinality(DOMAIN fn_out.before_events)
    /\ \A i \in 1..Len(fn_out.sent) :
           \E d \in DOMAIN fn_out.before_events :
               fn_out.sent[i].event = Deactivation(fn_out.before_events[d])

(* C25 as stated: after publish_ad succeeds the retained ad is active, and *)
(* after inactivate_ads returns every retained ad is inactive, each        *)
(* re-emitted event equals the retained one but for status = inactive, and *)
(* the set of retained offer ids is unchanged.                             *)
C25_InactivateLeavesAllInactive ==
    /\ PublishSucceeded =>
           ~active_ads.is_none /\ active_ads.ads[AdId].status = "active"
    /\ InactivateReturned => AllRetainedInactive /\ ReemittedAsInactive

(* C25 amended: after publish_ad succeeds the retained ad is active; after *)
(* inactivate_ads returns, the retained offer ids are unchanged and each   *)
(* re-emitted event equals the retained one but for status = inactive; an  *)
(* ad whose event the relay accepted is inactive and retains the           *)
(* re-emitted event, an ad whose send reported no success is retained as   *)
(* it was.                                                                 *)
C25_InactivateFollowsRelayAnswer ==
    /\ PublishSucceeded =>
           ~active_ads.is_none /\ active_ads.ads[AdId].status = "active"
    /\ InactivateReturned =>
           /\ ReemittedAsInactive
           /\ \A i \in 1..Len(fn_out.sent) :
                  IF fn_out.sent[i].outcome = "ok"
                  THEN /\ AllRetainedInactive
                       /\ \A d \in DOMAIN ad_events :
                              ad_events[d] = Deactivation(fn_out.before_events[d])
                  ELSE /\ active_ads = fn_out.before
                       /\ ad_events = fn_out.before_events

C25_Witness ==
    /\ InactivateReturned
    /\ ~fn_out.before.is_none
    /\ fn_out.before.ads[AdId].status = "active"
    /\ Len(fn_out.sent) = 1 /\ fn_out.sent[1].outcome = "ok"
    /\ active_ads.ads[AdId].status = "inactive"
    /\ ad_events[AdId].tags.status = "inactive"

(***************************************************************************)
(* Hot reload (specification SpecReload).  The process holds one reference *)
(* to its AdHandler and the order orchestrator holds another; a watcher    *)
(* re-reads the settings when the .env file changes.  The repository has   *)
(* two watchers: HotReloader._watch_env_file (basecli.py:45-76), which     *)
(* calls AdHandler.reload, and LspCLI._watch_env_file (lspcli.py:216-244), *)
(* which calls LspCLI._reload_ad_handler; Init chooses which one the       *)
(* process runs.  fn_in is the settings last read from the file; fn_out    *)
(* holds the handlers built so far, the two references (0 for None),       *)
(* whether the watcher still runs, and the last operation.                 *)
(***************************************************************************)
MaxReloads == 2

\* what the .env file may hold when it is re-read
EnvSettings ==
    [ad : {options, [options EXCEPT !.max_channel_balance_sat = 4000000,
                                    !.max_initial_lsp_balance_sat = 4000000]},
     custom : {custom_options}]

\* AdHandler.__init__ (lsp.py:51-62): options are the constructor's kwargs;
\* extra tells whether they carry keys beyond the ad settings, as the
\* kwargs the command line passes do (lspargs.py:218-250, lspcli.py:64-68)
AdHandler(opts, extra) ==
    [options |-> opts, extra |-> extra, active_ads |-> NoAds, ad_events |-> << >>]

\* current_options == new_options (lsp.py:283-286, lspcli.py:189-192): a
\* comparison of dicts, equal only with the same keys and the same values
same_options(h, new) == ~h.extra /\ h.options = new

\* publish_ad on a handler: the handler afterwards and whether it raised
publish_on(h, w, node_ok, stats, send) ==
    LET r == AdHandler_publish_ad(h.options, h.active_ads, h.ad_events, w,
                                  node_ok, stats, send)
    IN  [raised |-> r.raised,
         handler |-> [h EXCEPT !.active_ads = r.ads, !.ad_events = r.ad_events]]

(***************************************************************************)
(* AdHandler.reload (lsp.py:274-314): None when the settings compare equal *)
(* or when publishing under the new ones raised or retained no ad, else    *)
(* the new handler.  built is the handler it constructed, if any.          *)
(***************************************************************************)
AdHandler_reload(h, new, w, node_ok, stats, send) ==
    IF same_options(h, new)
    THEN [is_none |-> TRUE, built |-> FALSE, raised |-> FALSE,
          handler |-> h]
    ELSE LET r == publish_on(AdHandler(new, h.extra), w, node_ok, stats, send)
         IN  IF ~r.raised /\ ~r.handler.active_ads.is_none
                 /\ DOMAIN r.handler.active_ads.ads # {}
             THEN [is_none |-> FALSE, built |-> TRUE, raised |-> FALSE,
                   handler |-> r.handler]
             ELSE [is_none |-> TRUE, built |-> TRUE, raised |-> r.raised,
                   handler |-> r.handler]

NoOp ==
    [op |-> "none", prev |-> 1, before |-> "none", same |-> FALSE,
     published |-> FALSE, raised |-> FALSE]

InitReload ==
    /\ fn_in \in EnvSettings
    /\ \E caller \in {"HotReloader", "LspCLI"}, extra \in BOOLEAN :
          fn_out = [caller |-> caller,
                    handlers |-> <<AdHandler(fn_in, extra)>>,
                    ad_handler |-> 1,
                    order_handler_ad_handler |-> 1,
                    watching |-> TRUE,
                    last |-> NoOp]
    /\ active_ads = NoAds
    /\ ad_events = "none"
    /\ pc = "none" /\ order_of = "none" /\ check = "none"
    /\ inv_state = "none" /\ update = "none" /\ npending = 0
    /\ ended = "none" /\ events = << >> /\ lease_log = << >>
    /\ router = "none" /\ watcher = "none"

ReloadUnchanged ==
    UNCHANGED <<active_ads, ad_events, pc, order_of, check, inv_state, update,
                npending, ended, events, lease_log, router, watcher>>

\* LspCLI.cmd_publish_ad (lspcli.py:119-123) on the handler the process
\* references: the publish at startup (lspcli.py:259) or from the menu
startup_publish_ad ==
    /\ fn_out.ad_handler # 0
    /\ \E w \in Wallets, node_ok \in BOOLEAN, stats \in {1},
          send \in SendOutcomes :
          LET i == fn_out.ad_handler
              h == fn_out.handlers[i]
              r == publish_on(h, w, node_ok, stats, send)
          IN  fn_out' = [fn_out EXCEPT
                            !.handlers[i] = r.handler,
                            !.last = [op |-> "publish", prev |-> i,
                                      before |-> h,
                                      same |-> FALSE,
                                      published |-> ~r.handler.active_ads.is_none,
                                      raised |-> r.raised]]
    /\ UNCHANGED fn_in
    /\ ReloadUnchanged

(***************************************************************************)
(* One modification of the file seen by HotReloader._watch_env_file        *)
(* (basecli.py:63-71): reload_relays swallows its errors (client.py:56-    *)
(* 77); the result of reload, None included, is assigned to both           *)
(* references; _render_active_ad then reads ad_handler.active_ads          *)
(* (lspcli.py:147-151), which raises on None and ends the watcher          *)
(* (basecli.py:75-76).                                                     *)
(***************************************************************************)
HotReloader_watch_env_file ==
    /\ fn_out.caller = "HotReloader" /\ fn_out.watching
    /\ Len(fn_out.handlers) <= MaxReloads
    /\ \E new \in EnvSettings, w \in Wallets, node_ok \in BOOLEAN,
          stats \in {1}, send \in SendOutcomes :
          LET i == fn_out.ad_handler
              h == fn_out.handlers[i]
              r == AdHandler_reload(h, new, w, node_ok, stats, send)
          IN  /\ fn_in' = new
              /\ fn_out' = [fn_out EXCEPT
                              !.handlers = IF r.built THEN Append(@, r.handler)
                                           ELSE @,
                              !.ad_handler = IF r.is_none THEN 0
                                             ELSE Len(fn_out.handlers) + 1,
                              !.order_handler_ad_handler =
                                             IF r.is_none THEN 0
                                             ELSE Len(fn_out.handlers) + 1,
                              !.watching = ~r.is_none,
                              !.last = [op |-> "reload", prev |-> i,
                                        before |-> h,
                                        same |-> h.options = new,
                                        published |-> ~r.is_none,
                                        raised |-> r.raised]]
    /\ ReloadUnchanged

(***************************************************************************)
(* One modification of the file seen by LspCLI._watch_env_file             *)
(* (lspcli.py:235-239) and LspCLI._reload_ad_handler (lspcli.py:181-214):  *)
(* when the settings differ the new handler replaces both references       *)
(* before cmd_publish_ad runs, and an exception of the publish is logged.  *)
(***************************************************************************)
LspCLI_reload_ad_handler ==
    /\ fn_out.caller = "LspCLI" /\ fn_out.watching
    /\ Len(fn_out.handlers) <= MaxReloads
    /\ \E new \in EnvSettings, w \in Wallets, node_ok \in BOOLEAN,
          stats \in {1}, send \in SendOutcomes :
          LET i == fn_out.ad_handler
              h == fn_out.handlers[i]
              r == publish_on(AdHandler(new, h.extra), w, node_ok, stats, send)
          IN  /\ fn_in' = new
              /\ IF same_options(h, new)
                 THEN fn_out' = [fn_out EXCEPT
                                   !.last = [op |-> "reload", prev |-> i,
                                             before |-> h,
                                             same |-> h.options = new,
                                             published |-> FALSE,
                                             raised |-> FALSE]]
                 ELSE fn_out' = [fn_out EXCEPT
                                   !.handlers = Append(fn_out.handlers, r.handler),
                                   !.ad_handler = Len(fn_out.handlers) + 1,
                                   !.order_handler_ad_handler = Len(fn_out.handlers) + 1,
                                   !.last = [op |-> "reload", prev |-> i,
                                             before |-> h,
                                             same |-> h.options = new,
                                             published |->
                                                 ~r.handler.active_ads.is_none,
                                             raised |-> r.raised]]
    /\ ReloadUnchanged

NextReload ==
    \/ startup_publish_ad
    \/ HotReloader_watch_env_file
    \/ LspCLI_reload_ad_handler

SpecReload == InitReload /\ [][NextReload]_vars

\* the previous manager with its retained ads is the one both the
\* hot-reload caller and the order orchestrator reference
PreviousManagerKept ==
    /\ fn_out.ad_handler = fn_out.last.prev
    /\ fn_out.order_handler_ad_handler = fn_out.last.prev
    /\ fn_out.handlers[fn_out.last.prev] = fn_out.last.before

(* C26: a hot reload whose re-read ad settings equal the current ones      *)
(* changes nothing; one whose settings differ and whose publish under the  *)
(* new settings fails (no ad published, or an exception) leaves the        *)
(* previous manager, with its retained ads, referenced by the hot-reload   *)
(* caller and by the order orchestrator.                                   *)
C26_FailedReloadKeepsPreviousManager ==
    fn_out.last.op = "reload" =>
        /\ fn_out.last.same => PreviousManagerKept
        /\ (~fn_out.last.same /\ (fn_out.last.raised \/ ~fn_out.last.published))
               => PreviousManagerKept

(***************************************************************************)
(* Stopping the orchestrator (specification SpecStop): the orchestrator of *)
(* Spec with its listener task followed.  fn_out is the listener:          *)
(* "listening" after start (lsp.py:586-588), "stopped" once stop has       *)
(* returned, "closed" once the event loop is torn down.                    *)
(***************************************************************************)
InitStop ==
    /\ fn_in = "none"
    /\ fn_out = "listening"
    /\ OrchIdle
    /\ ad_events = "none"
    /\ router = "none"
    /\ watcher = "none"

\* OrderHandler._listen while its task runs (lsp.py:578-584)
listen_running(o) == fn_out = "listening" /\ _listen(o)

(***************************************************************************)
(* OrderHandler.stop (lsp.py:590-594): cancels self._task, the listener,   *)
(* and awaits it.  The tasks the listener spawned with create_task         *)
(* (lsp.py:582) are referenced nowhere and are not touched.                *)
(***************************************************************************)
stop ==
    /\ fn_out = "listening"
    /\ fn_out' = "stopped"
    /\ UNCHANGED <<fn_in, orch_vars, router, watcher, ad_events>>

(***************************************************************************)
(* The end of asyncio.run (lspargs.py:250) after shutdown (lspcli.py:100-  *)
(* 113): the loop cancels every task still pending.  CancelledError is     *)
(* raised at the await the task is suspended at; _handle_channel_request   *)
(* and what it calls (lsp.py:417-483, 530-576) have no handler for it, and *)
(* the generators of lnd.py catch Exception only, so the task ends there.  *)
(***************************************************************************)
cancel_pending_tasks ==
    /\ fn_out = "stopped"
    /\ fn_out' = "closed"
    /\ pc' = [o \in Tasks |-> IF pc[o] = "queued" THEN "queued" ELSE "done"]
    /\ ended' = [o \in Tasks |->
                    IF pc[o] \in {"queued", "done"} THEN ended[o] ELSE "cancelled"]
    /\ UNCHANGED <<fn_in, active_ads, order_of, check, inv_state, update,
                   npending, events, lease_log, router, watcher, ad_events>>

\* a resumption of an order task
TaskStep(o) ==
    \/ VerifyOrder(o)
    \/ _prepare_order(o)
    \/ SendOrderResponse(o)
    \/ InvoiceUpdate(o)
    \/ NextUpdate(o)
    \/ SendUpdateDM(o)
    \/ RepublishPending(o)
    \/ SettleDone(o)
    \/ FinalDM(o)
    \/ _append_lease_sale_to_output_file(o)
    \/ RepublishOpen(o)
    \/ CancelDone(o)

RunTask == fn_out # "closed" /\ \E o \in Tasks : TaskStep(o)

NextStop ==
    \/ cmd_publish_ad
    \/ \E o \in Tasks : listen_running(o)
    \/ stop
    \/ RunTask
    \/ cancel_pending_tasks

SpecStop == InitStop /\ [][NextStop]_vars

\* the node RPCs and DMs of the order tasks logged so far
Issued(o) ==
    { i \in 1..Len(events[o]) :
         events[o][i].t \in {"rpc", "dm_error", "dm_response", "dm_update",
                             "dm_final"} }

(* C27: once OrderHandler.stop has completed, every order task the         *)
(* listener spawned is cancelled: from then on no order task issues a node *)
(* RPC or sends a DM.                                                      *)
C27_NoTaskActsAfterStop ==
    [][fn_out = "stopped" => \A o \in Tasks : Issued(o)' = Issued(o)]_vars

\* the task saw its hodl invoice accepted and has not released the preimage
InvoiceHeld(o) ==
    /\ Has(o, Ev("paid", "HOLD"))
    /\ ~Has(o, Ev("rpc", "settle_hodl_invoice"))

(* C28: an order task that is cancelled while its hodl invoice is in HOLD  *)
(* has issued cancel_hodl_invoice, so that the payment is refunded.        *)
C28_CancelledTaskRefunds ==
    \A o \in Tasks :
        (ended[o] = "cancelled" /\ InvoiceHeld(o))
            => Has(o, Ev("rpc", "cancel_hodl_invoice"))

\* the order request of o is the next one the listener takes
NextRequest(o) ==
    pc[o] = "queued" /\ \A p \in Tasks : p < o => pc[p] # "queued"

(* C29: order tasks do not block one another.  However the earlier tasks   *)
(* ended (returned, error DM, uncaught exception) or wherever they wait,   *)
(* the listener can spawn the task of the next order request; and while an *)
(* earlier order waits for its payment, a later order's task can take its  *)
(* next step, whichever it is: be validated, invoiced, completed.          *)
C29_TasksIndependent ==
    \A o \in Tasks :
        /\ NextRequest(o) => ENABLED _listen(o)
        /\ (pc[o] \notin {"queued", "done"}
              /\ \E p \in Tasks : p < o /\ pc[p] = "wait_hold")
             => ENABLED TaskStep(o)

C29_Witness ==
    \E o, p \in Tasks :
        /\ o < p
        /\ pc[o] = "wait_hold"
        /\ ended[p] = "record_lease"

\* the task has run its append to the lease log
Appended(o) ==
    Has(o, Ev("dm_final", "OPEN")) /\ pc[o] \in {"republish_open", "done"}

(* C30: the read-modify-write appends of the order tasks to the lease log  *)
(* are serialised: however the tasks that reached OPEN interleave, the log *)
(* holds the record of every task that appended, once, and nothing else.   *)
C30_NoLostLeaseRecord ==
    /\ \A o \in Tasks : Appended(o) => Cardinality(LeasesOf(o)) = 1
    /\ Len(lease_log) = Cardinality({o \in Tasks : Appended(o)})

C30_Witness ==
    /\ Len(lease_log) = 2
    /\ lease_log[1].task > lease_log[2].task
    /\ \A o \in {lease_log[1].task, lease_log[2].task} : Appended(o)

Count(o, e) == Cardinality({i \in 1..Len(events[o]) : events[o][i] = e})

(* C33: for every order at most one of settle_hodl_invoice and             *)
(* cancel_hodl_invoice is ever issued, and at most once: a cancelled       *)
(* invoice is never settled and a settled one never cancelled.             *)
C33_SettleXorCancelOnce ==
    \A o \in Tasks : Count(o, Settle) + Count(o, Cancel) <= 1

C33_Witness ==
    \E o, p \in Tasks :
        /\ Done(o) /\ Count(o, Settle) = 1 /\ Has(o, Ev("update", "PENDING"))
        /\ Done(p) /\ Count(p, Cancel) = 1 /\ Has(p, Ev("update", "PENDING"))

(***************************************************************************)
(* The health watcher with its loop scheduled (specification               *)
(* SpecWatcherLive): the loop sleeps health_check_time and ticks again as  *)
(* long as it runs (lsputils.py:38, 91), so a tick that can happen does.   *)
(***************************************************************************)
\* _check_node_health with the loop running on: the two counters stop
\* counting at MaxTicks, the ticks go on
_check_node_health_loop ==
    /\ watcher.alive
    /\ \E t \in TickOutcomes(active_ads) :
         /\ active_ads' = t.ads
         /\ watcher' = [alive |-> t.alive,
                        ticks |-> IF watcher.ticks < MaxTicks
                                  THEN watcher.ticks + 1 ELSE watcher.ticks,
                        exceptions |-> IF t.caught /\ watcher.exceptions < MaxTicks
                                       THEN watcher.exceptions + 1
                                       ELSE watcher.exceptions,
                        last |-> [probe |-> t.probe, before |-> t.before,
                                  calls |-> t.calls, caught |-> t.caught,
                                  deactivation |-> t.deactivation]]
    /\ UNCHANGED <<ad_events, fn_in, fn_out, router, pc, order_of, check, inv_state,
                   update, npending, ended, events, lease_log>>

SpecWatcherLive ==
    InitWatcher /\ [][_check_node_health_loop]_vars
        /\ WF_vars(_check_node_health_loop)

\* the last tick found the node healthy, and a publish_ad it made went
\* through (the wallet funds the offer, node and relay answered)
HealthyAndFunded ==
    /\ watcher.last.probe = "healthy"
    /\ Called("publish_ad") => SomeActive(active_ads)

(* C32: recovery.  If from some tick on the node is reported healthy and   *)
(* is sufficiently funded, then, whatever happened before (the ads         *)
(* deactivated on unhealthy ticks included), the retained ad is eventually *)
(* active and stays active.                                                *)
C32_RecoversAndStaysActive ==
    <>[]HealthyAndFunded => <>[]SomeActive(active_ads)

\* the offer the order of o refers to is retained with status inactive
OfferInactive(o) ==
    /\ ~active_ads.is_none
    /\ order_of[o].d \in DOMAIN active_ads.ads
    /\ active_ads.ads[order_of[o].d].status = "inactive"

\* this step creates the hodl invoice of o
InvoiceCreated(o) == ~Has(o, CreateInvoice) /\ Has(o, CreateInvoice)'

(* C34: no hodl invoice is created for an order whose offer is retained    *)
(* with status inactive at that moment.                                    *)
C34_NoInvoiceForInactiveOffer ==
    [][\A o \in Tasks : InvoiceCreated(o) => ~OfferInactive(o)]_vars

(***************************************************************************)
(* The orchestrator and the health watcher in one process (specification   *)
(* SpecHealth): both hold the same AdHandler (lspcli.py:64-78), so the     *)
(* order tasks' publish_ad and the watcher's ticks act on the same         *)
(* retained ads.  fn_out holds the node's condition, which the probe       *)
(* reports (lnd.py:123-164: out of sync is unhealthy, no connection        *)
(* raises), and whether the watcher's last word was a deactivation for an  *)
(* unhealthy node.                                                         *)
(***************************************************************************)
InitHealth ==
    /\ fn_in = "none"
    /\ fn_out = [node |-> "healthy", deactivated |-> FALSE]
    /\ OrchIdle
    /\ ad_events = "none"
    /\ router = "none"
    /\ watcher = "none"

\* the node falls out of sync or catches up again
node_condition_changes ==
    /\ fn_out' = [fn_out EXCEPT
                    !.node = IF @ = "healthy" THEN "unhealthy" ELSE "healthy"]
    /\ UNCHANGED <<fn_in, orch_vars, router, watcher, ad_events>>

\* one tick of HealthChecker._check_node_health (lsputils.py:38-91) on the
\* node as it is
health_check_tick ==
    \E t \in TickOutcomes(active_ads) :
        /\ (t.probe = "healthy") <=> (fn_out.node = "healthy")
        /\ active_ads' = t.ads
        /\ fn_out' = [fn_out EXCEPT
                        !.deactivated =
                            IF t.probe = "healthy" THEN FALSE
                            ELSE IF t.deactivation = "ok" THEN TRUE
                            ELSE @]
        /\ UNCHANGED <<fn_in, pc, order_of, check, inv_state, update, npending,
                       ended, events, lease_log, router, watcher, ad_events>>

NextHealth ==
    \/ Next
    \/ node_condition_changes
    \/ health_check_tick

SpecHealth == InitHealth /\ [][NextHealth]_vars

\* the task is about to republish the ad (lsp.py:453-456, 473-475)
Republishing(o) == pc[o] \in {"republish_pending", "republish_open"}

(* C35: once the watcher has deactivated the ads because the node is       *)
(* unhealthy, no retained ad is active until a health tick observes the    *)
(* node healthy again; the republish of an in-flight order reaching        *)
(* PENDING or OPEN does not re-activate it.                                *)
C35_RepublishKeepsDeactivated ==
    [][\A o \in Tasks :
          (/\ fn_out.deactivated
           /\ fn_out.node = "unhealthy"
           /\ ~SomeActive(active_ads)
           /\ Republishing(o)
           /\ pc'[o] # pc[o])
          => ~SomeActive(active_ads)']_vars

(***************************************************************************)
(* The costs of one order from its invoice to its lease record             *)
(* (specification SpecLease).  get_order_costs reads the retained ad each  *)
(* time it is called (lsp.py:387-388): by _prepare_order for the invoice   *)
(* and the OrderResponse (lsp.py:401-412) and by                           *)
(* _append_lease_sale_to_output_file for the record (lsp.py:509).  Between *)
(* the two the ad is published again, by this task at PENDING              *)
(* (lsp.py:453-456), by another task, by the watcher or by a hot reload.   *)
(*   fn_in:  the retained ad, the order and the task's stage               *)
(*   fn_out: the costs in the OrderResponse and those in the lease record  *)
(***************************************************************************)
dynamic_fixed_cost_vb_multiplier == 320

\* what estimate_chain_fee does: it raises, or answers a rate in sat/vB
ChainFees ==
    {[raised |-> TRUE, sat_per_vb |-> 0]}
        \cup {[raised |-> FALSE, sat_per_vb |-> n] : n \in {1, 5, 20}}

\* AdHandler.adjust_fixed_cost (lsp.py:216-226)
adjust_fixed_cost(chain_fees, fallback) ==
    IF chain_fees.raised THEN fallback
    ELSE chain_fees.sat_per_vb * dynamic_fixed_cost_vb_multiplier

\* fixed_cost_sats and variable_cost_ppm of the .env file, before and after
\* an edit
LeaseSettings ==
    { [fixed_cost_sats |-> f, variable_cost_ppm |-> v] :
        f \in {1000, 75000}, v \in {0, 10000} }

LeaseAd(fixed_cost, variable_cost_ppm) ==
    [options EXCEPT !.max_initial_client_balance_sat = 1000000]
        @@ [lsp_pubkey |-> "lsp-node", fixed_cost_sats |-> fixed_cost,
            variable_cost_ppm |-> variable_cost_ppm]

NoCosts == [total_fee |-> -1, total_cost |-> -1]

InitLease ==
    /\ \E s \in LeaseSettings, order \in CostOrders :
          fn_in = [ad |-> LeaseAd(s.fixed_cost_sats, s.variable_cost_ppm),
                   order |-> order, stage |-> "prepare"]
    /\ fn_out = [response |-> NoCosts, lease |-> NoCosts]
    /\ OrchIdle
    /\ ad_events = "none"
    /\ router = "none"
    /\ watcher = "none"

LeaseUnchanged == UNCHANGED <<orch_vars, router, watcher, ad_events>>

\* _prepare_order (lsp.py:399-415): invoice and OrderResponse for the costs
\* of the ad as it is now
prepare_order_costs ==
    /\ fn_in.stage = "prepare"
    /\ fn_out' = [fn_out EXCEPT !.response = get_order_costs(fn_in.ad, fn_in.order)]
    /\ fn_in' = [fn_in EXCEPT !.stage = "invoiced"]
    /\ LeaseUnchanged

\* publish_ad with dynamic_fixed_cost (lsp.py:143-147)
republish_dynamic_fixed_cost ==
    /\ \E fee \in ChainFees :
          fn_in' = [fn_in EXCEPT
                      !.ad.fixed_cost_sats = adjust_fixed_cost(fee, 1000)]
    /\ fn_in'.ad # fn_in.ad
    /\ UNCHANGED fn_out
    /\ LeaseUnchanged

\* AdHandler.reload (lsp.py:274-314) took the edited settings
republish_hot_reload ==
    /\ \E s \in LeaseSettings :
          fn_in' = [fn_in EXCEPT
                      !.ad = LeaseAd(s.fixed_cost_sats, s.variable_cost_ppm)]
    /\ fn_in'.ad # fn_in.ad
    /\ UNCHANGED fn_out
    /\ LeaseUnchanged

\* _append_lease_sale_to_output_file (lsp.py:498-528) at OPEN
append_lease_costs ==
    /\ fn_in.stage = "invoiced"
    /\ fn_out' = [fn_out EXCEPT !.lease = get_order_costs(fn_in.ad, fn_in.order)]
    /\ fn_in' = [fn_in EXCEPT !.stage = "recorded"]
    /\ LeaseUnchanged

NextLease ==
    \/ prepare_order_costs
    \/ republish_dynamic_fixed_cost
    \/ republish_hot_reload
    \/ append_lease_costs

SpecLease == InitLease /\ [][NextLease]_vars

(* C36: the total_fee and total_cost written in an order's lease record    *)
(* equal the fee_total_sat and order_total_sat of the OrderResponse and    *)
(* invoice issued for that order, whatever republishing of the ad happened *)
(* in between.                                                             *)
C36_LeaseRecordMatchesInvoice ==
    fn_in.stage = "recorded" => fn_out.lease = fn_out.response

(***************************************************************************)
(* The advertised maximum against the orchestrator's solvency check        *)
(* (specification SpecSolvency): publish_ad sets max_channel_balance_sat   *)
(* from adjust_ad_max_capacity (lsp.py:128-147, 228-272), which prices     *)
(* every input by its address type (spend_all_cost, ln/utils.py:5-9);      *)
(* verify_order_and_connection prices every input at 68 vB                 *)
(* (lsp.py:349-371).  The wallet is the same in both calls.                *)
(*   fn_in:  the custom settings and the wallet                            *)
(*   fn_out: the stage, the advertised maximum and the check's result      *)
(***************************************************************************)
AddressTypes == {"WITNESS_PUBKEY_HASH", "NESTED_PUBKEY_HASH", "TAPROOT_PUBKEY"}

UtxoOf(address_type, amount) ==
    [address_type |-> address_type, amount_sat |-> amount, confirmations |-> 6]

\* one or two confirmed outputs of any type; reserve 50,000; 1, 5 or 20 sat/vB
SolvencyWallets ==
    { [error |-> FALSE, utxos |-> utxos, required_reserve |-> 50000,
       sat_per_kw |-> k] :
        utxos \in { <<UtxoOf(t, a)>> : t \in AddressTypes, a \in {3000000, 12000000} }
                  \cup { <<UtxoOf(t, 3000000), UtxoOf(u, 4000000)>> :
                             t \in AddressTypes, u \in AddressTypes },
        k \in {4000, 20000, 80000} }

SolvencyCustom ==
    { [sum_utxos_as_max_capacity |-> s, channel_max_bucket |-> 1000000] :
        s \in BOOLEAN }

InitSolvency ==
    /\ fn_in \in [custom : SolvencyCustom, w : SolvencyWallets]
    /\ fn_out = [stage |-> "start", max_channel_balance_sat |-> 0,
                 result |-> Verified]
    /\ OrchIdle
    /\ ad_events = "none"
    /\ router = "none"
    /\ watcher = "none"

\* the ad publish_ad retains for an adjusted maximum (lsp.py:146-147)
AdWithMax(max) ==
    [options EXCEPT !.max_channel_balance_sat = max,
                    !.max_initial_lsp_balance_sat = max]

\* publish_ad up to the adjusted maximum (lsp.py:128-147)
publish_adjusted_ad ==
    /\ fn_out.stage = "start"
    /\ fn_out' = [fn_out EXCEPT
                    !.max_channel_balance_sat =
                        AdHandler_adjust_ad_max_capacity(options, fn_in.custom, fn_in.w),
                    !.stage =
                        IF AdHandler_adjust_ad_max_capacity(options, fn_in.custom, fn_in.w) = 0
                        THEN "unpublished" ELSE "published"]
    /\ UNCHANGED <<fn_in, orch_vars, router, watcher, ad_events>>

\* verify_order_and_connection (lsp.py:332-385) of an order for the
\* advertised maximum, the peer reachable
verify_order_at_max ==
    /\ fn_out.stage = "published"
    /\ fn_out' = [fn_out EXCEPT
                    !.result = verify_order_and_connection(
                        [is_none |-> FALSE,
                         ads |-> (AdId :> AdWithMax(fn_out.max_channel_balance_sat))],
                        OrderOf(AdId, fn_out.max_channel_balance_sat),
                        fn_in.w, "connected"),
                    !.stage = "verified"]
    /\ UNCHANGED <<fn_in, orch_vars, router, watcher, ad_events>>

NextSolvency ==
    \/ publish_adjusted_ad
    \/ verify_order_at_max

SpecSolvency == InitSolvency /\ [][NextSolvency]_vars

(* C37: with the wallet unchanged since the ad was published, an order     *)
(* whose total capacity equals the advertised max_channel_balance_sat is   *)
(* not refused by the solvency check, for every mix of UTXO address types  *)
(* and with or without sum_utxos_as_max_capacity.                          *)
C37_AdvertisedMaxIsFillable ==
    fn_out.stage = "verified" => fn_out.result.found # "insolvent"

(***************************************************************************)
(* The OrderResponses of one LSP process (specification SpecOrderId).      *)
(* The class body of OrderResponse is executed once, at import, and with   *)
(* it the expressions str(uuid.uuid4()) and datetime.now(timezone.utc)     *)
(* that Field(default=...) is given (order.py:137, 144).  from_order       *)
(* passes only the fields an Order has (order.py:154-158), order_id and    *)
(* created_at not among them (order.py:43-62).                             *)
(*   fn_in:  the two class defaults and the clock                          *)
(*   fn_out: the responses built so far, each with the time it was built   *)
(***************************************************************************)
MaxResponses == 3

Uuids == {"uuid-a", "uuid-b", "uuid-c"}

InitOrderId ==
    /\ \E u \in Uuids :
          fn_in = [order_id_default |-> u, created_at_default |-> 0, now |-> 0]
    /\ fn_out = << >>
    /\ OrchIdle
    /\ ad_events = "none"
    /\ router = "none"
    /\ watcher = "none"

clock_advances ==
    /\ fn_in.now < MaxTime
    /\ fn_in' = [fn_in EXCEPT !.now = @ + 1]
    /\ UNCHANGED <<fn_out, orch_vars, router, watcher, ad_events>>

\* OrderResponse.from_order (order.py:152-163) as _prepare_order calls it
\* (lsp.py:415)
OrderResponse_from_order ==
    /\ Len(fn_out) < MaxResponses
    /\ \E order \in OrderPool :
          fn_out' = Append(fn_out,
                       [order_id |-> fn_in.order_id_default,
                        created_at |-> fn_in.created_at_default,
                        lsp_balance_sat |-> order.lsp_balance_sat,
                        client_balance_sat |-> order.client_balance_sat,
                        order_state |-> "CREATED",
                        built_at |-> fn_in.now])
    /\ UNCHANGED <<fn_in, orch_vars, router, watcher, ad_events>>

NextOrderId ==
    \/ clock_advances
    \/ OrderResponse_from_order

SpecOrderId == InitOrderId /\ [][NextOrderId]_vars

(* C38: OrderResponses built by one LSP process for two different orders   *)
(* carry different order_id values, and each carries the creation time of  *)
(* its own response.                                                       *)
C38_OrderIdsDistinct ==
    /\ \A i, j \in 1..Len(fn_out) :
          i # j => fn_out[i].order_id # fn_out[j].order_id
    /\ \A i \in 1..Len(fn_out) : fn_out[i].created_at = fn_out[i].built_at

(***************************************************************************)
(* create_order in API mode against the response listener (specification   *)
(* SpecApi).  create_order awaits send_private_msg (orders.py:91-95) and   *)
(* only then calls wait_for_next_response (orders.py:99-102), which        *)
(* registers its queue (response_manager.py:33-40, 119) and waits 30 s.    *)
(* handle_order_response, in the listener's task on the same loop, calls   *)
(* store_response whenever the LSP's answer arrives (customer.py:290).     *)
(*   fn_in:  create_order's position, the clock in seconds since the DM    *)
(*           was handed to the relay, when the wait began and when the     *)
(*           response was stored (-1: not yet)                             *)
(*   fn_out: the manager's latest response and registered queues, the      *)
(*           items of create_order's queue, and what create_order returned *)
(***************************************************************************)
MaxClock == 34

order_response_timeout == 30

TheQueue == 1

InitApi ==
    /\ fn_in = [pc |-> "send", now |-> 0, wait_from |-> 0, stored_at |-> -1]
    /\ fn_out = [latest |-> "none", queues |-> << >>, items |-> << >>,
                 result |-> "none"]
    /\ OrchIdle
    /\ ad_events = "none"
    /\ router = "none"
    /\ watcher = "none"

ApiUnchanged == UNCHANGED <<orch_vars, router, watcher, ad_events>>

\* asyncio.wait_for fires its timeout at the deadline; until then time passes
second_passes ==
    /\ fn_in.now < MaxClock
    /\ ~(fn_in.pc = "wait" /\ fn_in.now >= fn_in.wait_from + order_response_timeout)
    /\ fn_in' = [fn_in EXCEPT !.now = @ + 1]
    /\ UNCHANGED fn_out
    /\ ApiUnchanged

\* send_private_msg returned; wait_for_next_response registers its queue
\* (create_response_waiter, response_manager.py:33-40) and starts waiting
create_response_waiter ==
    /\ fn_in.pc = "send"
    /\ fn_in' = [fn_in EXCEPT !.pc = "wait", !.wait_from = fn_in.now]
    /\ fn_out' = [fn_out EXCEPT !.queues = Append(@, TheQueue)]
    /\ ApiUnchanged

\* ResponseQueueManager.store_response (response_manager.py:42-95): the
\* latest response is replaced, every registered queue that is not full gets
\* the response, and all of them are removed
store_response ==
    /\ fn_in.stored_at = -1
    /\ fn_in' = [fn_in EXCEPT !.stored_at = fn_in.now]
    /\ fn_out' = [fn_out EXCEPT
                    !.latest = "order_response",
                    !.items = IF Len(fn_out.queues) > 0 /\ Len(@) < 1
                              THEN Append(@, "order_response") ELSE @,
                    !.queues = << >>]
    /\ ApiUnchanged

\* queue.get() returned (response_manager.py:123-125; orders.py:113)
queue_get ==
    /\ fn_in.pc = "wait"
    /\ Len(fn_out.items) > 0
    /\ fn_in' = [fn_in EXCEPT !.pc = "returned"]
    /\ fn_out' = [fn_out EXCEPT !.result = Head(fn_out.items), !.items = Tail(@)]
    /\ ApiUnchanged

\* asyncio.TimeoutError (response_manager.py:132-138): the queue is removed
\* and None returned; create_order raises (orders.py:106-111)
wait_timed_out ==
    /\ fn_in.pc = "wait"
    /\ Len(fn_out.items) = 0
    /\ fn_in.now >= fn_in.wait_from + order_response_timeout
    /\ fn_in' = [fn_in EXCEPT !.pc = "timed_out"]
    /\ fn_out' = [fn_out EXCEPT !.queues = << >>, !.result = "http_error"]
    /\ ApiUnchanged

NextApi ==
    \/ second_passes
    \/ create_response_waiter
    \/ store_response
    \/ queue_get
    \/ wait_timed_out

SpecApi == InitApi /\ [][NextApi]_vars

(* C39: when the LSP's response is stored within the 30 s after the order  *)
(* DM was sent, create_order returns that response, also when it was       *)
(* stored before create_order registered its waiter queue; the waiter      *)
(* queue receives at most one response and is removed once served or timed *)
(* out.                                                                    *)
C39_StoredResponseIsReturned ==
    /\ (/\ fn_in.pc \in {"returned", "timed_out"}
        /\ fn_in.stored_at >= 0
        /\ fn_in.stored_at <= order_response_timeout)
       => fn_out.result = "order_response"
    /\ Len(fn_out.items) <= 1
    /\ fn_in.pc \in {"returned", "timed_out"} => fn_out.queues = << >>

(***************************************************************************)
(* OrderHandler.start and stop around the listener task (specification     *)
(* SpecStart; lsp.py:578-594).  Listener tasks are numbered as they are    *)
(* created; self._task names the last one.  A task is done once it is no   *)
(* longer in live: cancelled and returned (lsp.py:583-584) or ended by an  *)
(* exception of the generator (nip17.py:61-73).  The rumor queue is an     *)
(* asyncio.Queue (nip17.py:30-39, 53-57): a get takes its head.            *)
(*   fn_in:  _task (0: unset), the live and the cancelled listener tasks,  *)
(*           how many were created, the rumor queue and how many order     *)
(*           requests arrived                                              *)
(*   fn_out: per order request the per-order tasks created for it, those   *)
(*           that did not prepare their order yet, and its invoices; and   *)
(*           what the last start() or stop() found and did                 *)
(***************************************************************************)
MaxStarts == 3

MaxRequests == 2

Requests == 1..MaxRequests

NoLast == [op |-> "none", was_running |-> FALSE, created |-> FALSE]

InitStart ==
    /\ fn_in = [task |-> 0, live |-> {}, cancelled |-> {}, created |-> 0,
                queue |-> << >>, arrived |-> 0]
    /\ fn_out = [handled |-> [r \in Requests |-> 0],
                 pending |-> [r \in Requests |-> 0],
                 invoices |-> [r \in Requests |-> 0],
                 last |-> NoLast]
    /\ OrchIdle
    /\ ad_events = "none"
    /\ router = "none"
    /\ watcher = "none"

StartUnchanged == UNCHANGED <<orch_vars, router, watcher, ad_events>>

\* self._task is set and not done
task_running == fn_in.task # 0 /\ fn_in.task \in fn_in.live

\* a start() that creates a listener task whatever self._task is
OrderHandler_start_unguarded ==
    /\ fn_in.created < MaxStarts
    /\ fn_in' = [fn_in EXCEPT !.created = @ + 1,
                              !.task = fn_in.created + 1,
                              !.live = @ \cup {fn_in.created + 1}]
    /\ fn_out' = [fn_out EXCEPT
                    !.last = [op |-> "start", was_running |-> task_running,
                              created |-> TRUE]]
    /\ StartUnchanged

\* OrderHandler.start (lsp.py:586-588)
OrderHandler_start ==
    /\ fn_in.created < MaxStarts
    /\ IF fn_in.task = 0 \/ fn_in.task \notin fn_in.live
       THEN fn_in' = [fn_in EXCEPT !.created = @ + 1,
                                   !.task = fn_in.created + 1,
                                   !.live = @ \cup {fn_in.created + 1}]
       ELSE UNCHANGED fn_in
    /\ fn_out' = [fn_out EXCEPT
                    !.last = [op |-> "start", was_running |-> task_running,
                              created |-> ~task_running]]
    /\ StartUnchanged

\* OrderHandler.stop up to its await (lsp.py:590-592): cancel() of a task
\* that is done has no effect
OrderHandler_stop ==
    /\ fn_in.task # 0
    /\ fn_in.task \notin fn_in.cancelled
    /\ fn_in' = [fn_in EXCEPT !.cancelled = @ \cup ({fn_in.task} \cap fn_in.live)]
    /\ fn_out' = [fn_out EXCEPT
                    !.last = [op |-> "stop", was_running |-> task_running,
                              created |-> FALSE]]
    /\ StartUnchanged

\* the listener gets the CancelledError at its await and returns
\* (lsp.py:583-584); stop's await ends with it (lsp.py:593-594)
listener_cancelled ==
    /\ \E l \in fn_in.live \cap fn_in.cancelled :
          fn_in' = [fn_in EXCEPT !.live = @ \ {l}]
    /\ UNCHANGED fn_out
    /\ StartUnchanged

\* the generator raised on a rumor it could not parse (nip17.py:61-73): the
\* rumor is taken and the task finished
listener_finished ==
    /\ Len(fn_in.queue) > 0
    /\ \E l \in fn_in.live \ fn_in.cancelled :
          fn_in' = [fn_in EXCEPT !.live = @ \ {l}, !.queue = Tail(@)]
    /\ UNCHANGED fn_out
    /\ StartUnchanged

\* RumorHandler.on_new_rumor (nip17.py:34-39) with an order request
order_request_arrives ==
    /\ fn_in.arrived < MaxRequests
    /\ fn_in' = [fn_in EXCEPT !.arrived = @ + 1,
                              !.queue = Append(@, fn_in.arrived + 1)]
    /\ UNCHANGED fn_out
    /\ StartUnchanged

\* one round of a listener's loop (lsp.py:580-582): the next order request
\* is taken from the queue and a task created for it
listener_takes_request ==
    /\ Len(fn_in.queue) > 0
    /\ fn_in.live \ fn_in.cancelled # {}
    /\ fn_in' = [fn_in EXCEPT !.queue = Tail(@)]
    /\ fn_out' = [fn_out EXCEPT !.handled[Head(fn_in.queue)] = @ + 1,
                                !.pending[Head(fn_in.queue)] = @ + 1]
    /\ StartUnchanged

\* a per-order task reached create_hodl_invoice (lsp.py:399-404, 567)
task_creates_invoice ==
    /\ \E r \in Requests :
          /\ fn_out.pending[r] > 0
          /\ fn_out' = [fn_out EXCEPT !.pending[r] = @ - 1,
                                      !.invoices[r] = @ + 1]
    /\ UNCHANGED fn_in
    /\ StartUnchanged

NextStart ==
    \/ OrderHandler_start
    \/ OrderHandler_stop
    \/ listener_cancelled
    \/ listener_finished
    \/ order_request_arrives
    \/ listener_takes_request
    \/ task_creates_invoice

SpecStart == InitStart /\ [][NextStart]_vars

SpecTasks == Init /\ [][Next]_vars

SpecOrders == Init /\ [][Next]_vars

====
